---- MODULE Spec2Model ----
(***************************************************************************)
(* A model of tarredfs' TarEntry (src/src/tarentry.cc): the byte layout of *)
(* an entry (header_size, blocked_size), hard-link rewriting, byte-range   *)
(* serving (copy), the fingerprint and the catalog line (cookEntry and     *)
(* eatEntry).                                                              *)
(*                                                                         *)
(* Strings are sequences of one-character strings.  A Path is the sequence *)
(* of its components (atoms); the root is the path whose only component is *)
(* the empty atom, so that "/a/b" has depth 3.  NULL stands for a null     *)
(* Path pointer: no Path has zero components.                              *)
(***************************************************************************)
EXTENDS Integers, Sequences, FiniteSets, TLC

VARIABLES
    style,      \* the TarHeaderStyle the run constructs its entries with
    entries,    \* entry id -> the TarEntry object, or NoEntry
    last,       \* the last call made: operation, entry, argument, return value
    aborted,    \* "none", or what ended the process: a failed assert, error()
    served,     \* the last copy call: its arguments and what it wrote and returned
    sweep,      \* a reader sweeping an entry with successive copy calls
    cat,        \* the catalog codec: the listing written and what eatEntry parsed
    tree,       \* the directory tree: each node's entries_ list and parent_
    config      \* the configuration: rules_, the file, the menu session

vars == <<style, entries, last, aborted, served, sweep, cat, tree, config>>

----------------------------------------------------------------------------
(* Bounds and program constants *)

NumEntries == 2

T_BLOCKSIZE == 512

\* Width of the name and link fields embedded in the core header block.
MaxNameLen == 100

Ids == 1..NumEntries

NULL == <<>>

NoEntry == [ctor |-> "none"]

NoCall == [op |-> "none"]

----------------------------------------------------------------------------
(* Text *)

Min(a, b) == IF a < b THEN a ELSE b

Digits == <<"0", "1", "2", "3", "4", "5", "6", "7", "8", "9">>

RECURSIVE ToDec(_)
\* operator<<(ostream&, integer): the decimal digits of n, no padding.
ToDec(n) == IF n < 10 THEN <<Digits[n + 1]>> ELSE ToDec(n \div 10) \o <<Digits[(n % 10) + 1]>>

\* snprintf("%0<w>ju"): decimal, zero-padded on the left to at least w digits.
ZeroPad(n, w) ==
    LET d == ToDec(n)
    IN  IF Len(d) >= w THEN d ELSE [i \in 1..(w - Len(d)) |-> "0"] \o d

DigitVal(c) == CHOOSE k \in 0..9 : Digits[k + 1] = c

IsDigit(c) == \E k \in 1..10 : Digits[k] = c

RECURSIVE AtoiFrom(_, _, _)
AtoiFrom(s, i, acc) ==
    IF i > Len(s) \/ ~IsDigit(s[i]) THEN acc
    ELSE AtoiFrom(s, i + 1, acc * 10 + DigitVal(s[i]))

\* atoi / atol on a string without sign or leading blanks: the value of the
\* longest prefix of digits, 0 when there is none.
Atol(s) == AtoiFrom(s, 1, 0)

\* Index of the first occurrence of c in s at or after i, 0 when there is none.
FindFrom(s, c, i) ==
    IF \E j \in i..Len(s) : s[j] = c
    THEN CHOOSE j \in i..Len(s) : s[j] = c /\ \A k \in i..(j - 1) : s[k] # c
    ELSE 0

\* Op applied to the value of val, which is computed once.
Let(val, Op(_)) == CHOOSE y \in {Op(x) : x \in {val}} : TRUE

----------------------------------------------------------------------------
(* Path *)

Root == << <<>> >>

depth(p) == Len(p)

RECURSIVE JoinFrom(_, _)
JoinFrom(p, i) ==
    IF i > Len(p) THEN <<>>
    ELSE IF i = Len(p) THEN p[i]
    ELSE p[i] \o <<"/">> \o JoinFrom(p, i + 1)

\* Path::str(): the components joined by "/"; the root is the empty string.
str(p) == JoinFrom(p, 1)

c_str_len(p) == Len(str(p))

\* Path::subpath(from): the components from index from (0-based) on.
subpath(p, from) ==
    IF from >= Len(p) THEN Root ELSE SubSeq(p, from + 1, Len(p))

RECURSIVE CommonLen(_, _, _)
CommonLen(a, b, i) ==
    IF i > Len(a) \/ i > Len(b) \/ a[i] # b[i] THEN i - 1
    ELSE CommonLen(a, b, i + 1)

\* Path::commonPrefix(a, b): the longest common leading run of components,
\* NULL when the first components already differ.
commonPrefix(a, b) ==
    LET n == CommonLen(a, b, 1)
    IN  IF n = 0 THEN NULL ELSE SubSeq(a, 1, n)

\* The text of s cut at every "/": component k lies between the (k-1)th
\* and the kth "/".
Split(s) ==
    LET at == {j \in 1..Len(s) : s[j] = "/"}
        nth(k) == IF k = 0 THEN 0
                  ELSE IF k > Cardinality(at) THEN Len(s) + 1
                  ELSE CHOOSE j \in at : Cardinality({m \in at : m <= j}) = k
    IN  [k \in 1..(Cardinality(at) + 1) |-> SubSeq(s, nth(k - 1) + 1, nth(k) - 1)]

\* Path::lookup(string): one trailing "/" is dropped, then the string is cut
\* at every "/".
lookup(s) ==
    Split(IF Len(s) > 0 /\ s[Len(s)] = "/" THEN SubSeq(s, 1, Len(s) - 1) ELSE s)

IsPrefix(a, b) == Len(a) <= Len(b) /\ SubSeq(b, 1, Len(a)) = a

----------------------------------------------------------------------------
(* TarHeader: sizes *)

\* A name longer than the embedded field needs a GNU extension: one extension
\* header block plus the blocks holding the text.
numLongBlocks(len) == IF len > MaxNameLen THEN 2 + (len \div T_BLOCKSIZE) ELSE 0

numLongPathBlocks(tarpath) == numLongBlocks(c_str_len(tarpath))

numLongLinkBlocks(link) == IF link = NULL THEN 0 ELSE numLongBlocks(c_str_len(link))

\* TarHeader::calculateSize(fs, tarpath, link, is_hard_link)
calculateSize(fs, tarpath, link, is_hard_link) ==
    (1 + numLongPathBlocks(tarpath) + numLongLinkBlocks(link)) * T_BLOCKSIZE

----------------------------------------------------------------------------
(* FileStat *)

\* struct stat as the walk hands it over.  type is the file type of st_mode
\* ("NONE" for a zeroed stat), perm its nine permission bits.
FileStat(type, ino, size, major, minor, mtim, atim, ctim) ==
    [type |-> type, ino |-> ino, perm |-> 420, uid |-> 1000, gid |-> 100, size |-> size,
     major |-> major, minor |-> minor, mtim |-> mtim, atim |-> atim, ctim |-> ctim]

\* memset(&fs_, 0, sizeof(fs_))
ZeroStat ==
    [type |-> "NONE", ino |-> 0, perm |-> 0, uid |-> 0, gid |-> 0, size |-> 0,
     major |-> 0, minor |-> 0, mtim |-> <<0, 0>>, atim |-> <<0, 0>>, ctim |-> <<0, 0>>]

isSymbolicLink(e) == e.fs.type = "LNK"

----------------------------------------------------------------------------
(* TarEntry: construction and layout *)

\* A rounding that was forgotten.
RoundUpForgotten(size) == size

\* Round size to the nearest 512 byte boundary above it.
RoundUp(size) ==
    IF size % T_BLOCKSIZE = 0 THEN size ELSE size + T_BLOCKSIZE - (size % T_BLOCKSIZE)

\* The two asserts that end updateSizes, on the entry it has just updated;
\* size is the unrounded byte count.
updateSizesAsserts(e, size) ==
    /\ (~e.is_hard_linked \/ size = T_BLOCKSIZE)
    /\ size >= e.header_size /\ e.blocked_size >= size

\* The content size added whatever the file type.
updateSizesSizeAnyType(e) ==
    LET hs == IF e.tar_header_style = "None" THEN 0
              ELSE calculateSize(e.fs, e.tarpath, e.link, e.is_hard_linked)
    IN  IF ~e.is_hard_linked THEN hs + e.fs.size ELSE hs

\* The byte count updateSizes rounds: the header, plus the content of a regular
\* file that is not hard-linked.
updateSizesSize(e) ==
    LET hs == IF e.tar_header_style = "None" THEN 0
              ELSE calculateSize(e.fs, e.tarpath, e.link, e.is_hard_linked)
    IN  IF e.fs.type = "REG" /\ ~e.is_hard_linked THEN hs + e.fs.size ELSE hs

\* updateSizes called on e runs to its end: neither assert fails.
updateSizesOk(e) ==
    LET hs == IF e.tar_header_style = "None" THEN 0
              ELSE calculateSize(e.fs, e.tarpath, e.link, e.is_hard_linked)
        size == updateSizesSize(e)
    IN  updateSizesAsserts([e EXCEPT !.header_size = hs, !.blocked_size = RoundUp(size)], size)

\* TarEntry::updateSizes: the entry with header_size_, blocked_size_ and
\* children_size_ recomputed.
updateSizes(e) ==
    LET hs == IF e.tar_header_style = "None" THEN 0
              ELSE calculateSize(e.fs, e.tarpath, e.link, e.is_hard_linked)
        size == updateSizesSize(e)
    IN  [e EXCEPT !.header_size = hs,
                  !.blocked_size = RoundUp(size),
                  !.children_size = RoundUp(size)]

\* permissionString(mode): the type character and the nine rwx characters.
TypeChar(type) ==
    CASE type = "DIR" -> "d" [] type = "LNK" -> "l" [] type = "CHR" -> "c"
      [] type = "BLK" -> "b" [] type = "FIFO" -> "p" [] OTHER -> "-"

RwxChars == <<"r", "w", "x", "r", "w", "x", "r", "w", "x">>

Bit(n, k) == (n \div (2 ^ k)) % 2

permissionString(fs) ==
    <<TypeChar(fs.type)>> \o
    [i \in 1..9 |-> IF Bit(fs.perm, 9 - i) = 1 THEN RwxChars[i] ELSE "-"]

\* The byte that separates the fields of a catalog line.
separator == "\\0"

separator_string == <<separator>>

\* snprintf("%012ju.%09ju", tv_sec, tv_nsec)
secsAndNanos(ts) == ZeroPad(ts[1], 12) \o <<".">> \o ZeroPad(ts[2], 9)

\* strftime("%Y-%m-%d %H:%M.%S", localtime(&st_mtime)): informational only.
Datetime(ts) == <<"@">> \o ToDec(ts[1])

\* TarEntry::TarEntry(size_t size, TarHeaderStyle ths)
TarEntrySize(size, ths) ==
    [ctor |-> "size", abspath |-> Root, path |-> Root, tarpath |-> Root,
     fs |-> [ZeroStat EXCEPT !.size = size], tar_header_style |-> ths,
     is_hard_linked |-> FALSE, link |-> NULL,
     header_size |-> 0, blocked_size |-> RoundUp(size), children_size |-> RoundUp(size),
     virtual_file |-> FALSE, content |-> 0, sha256_hash |-> NULL,
     tv_line_left |-> <<>>, tv_line_size |-> <<>>, tv_line_right |-> <<>>,
     tar_file |-> NULL, tar_offset |-> 0]

\* TarEntry::TarEntry(Path *ap, Path *p, const struct stat *b, TarHeaderStyle ths),
\* destination being what readlink returned for a symbolic link: the fields as
\* they are set before updateSizes is called
TarEntryStatFields(ap, p, b, ths, destination) ==
              [ctor |-> "stat", abspath |-> ap, path |-> p, tarpath |-> p,
               fs |-> b, tar_header_style |-> ths,
               is_hard_linked |-> FALSE,
               link |-> IF b.type = "LNK" THEN lookup(destination) ELSE NULL,
               header_size |-> 0, blocked_size |-> 0, children_size |-> 0,
               virtual_file |-> FALSE, content |-> 0, sha256_hash |-> NULL,
               tv_line_left |-> <<>>, tv_line_size |-> <<>>, tv_line_right |-> <<>>,
               tar_file |-> NULL, tar_offset |-> 0]

\* ... and the entry the constructor leaves
TarEntryStat(ap, p, b, ths, destination) ==
    LET e1 == updateSizes(TarEntryStatFields(ap, p, b, ths, destination))
        left == permissionString(b) \o separator_string \o ToDec(b.uid) \o <<"/">> \o ToDec(b.gid)
        size == IF b.type = "LNK" THEN ToDec(0)
                ELSE IF b.type \in {"CHR", "BLK"} THEN ToDec(b.major) \o <<",">> \o ToDec(b.minor)
                ELSE ToDec(b.size)
        right == Datetime(b.mtim) \o separator_string \o secsAndNanos(b.mtim) \o separator_string
                 \o secsAndNanos(b.atim) \o separator_string \o secsAndNanos(b.ctim)
    IN  IF ths = "None" THEN e1
        ELSE [e1 EXCEPT !.tv_line_left = left, !.tv_line_size = size, !.tv_line_right = right]

\* TarEntry::calculateTarpath(storage_dir)
calculateTarpath(e, storage_dir) ==
    [e EXCEPT !.tarpath = subpath(e.path, depth(storage_dir))]

\* TarEntry::setContent(c), c a buffer of n bytes
setContent(e, n) ==
    [e EXCEPT !.content = n, !.virtual_file = TRUE]

\* An assert that was left out.
setContentAssertForgotten(e, n) == TRUE

\* The assert that ends setContent: the declared size is the length of c.
setContentAssert(e, n) == e.fs.size = n

\* TarEntry::rewriteIntoHardLink(target)
rewriteIntoHardLink(e, target) ==
    updateSizes([e EXCEPT !.link = target.tarpath, !.is_hard_linked = TRUE])

\* fixHardLink takes the rewriting branch: storage_dir is not the root and
\* the common prefix with the link is at least as deep as storage_dir.
fixHardLinkRewrites(e, storage_dir) ==
    /\ storage_dir # Root
    /\ LET common == commonPrefix(storage_dir, e.link)
       IN  ~(common = NULL \/ depth(common) < depth(storage_dir))

\* The link cut before the common prefix is looked at.
fixHardLinkCutsFirst(e, storage_dir) ==
    IF storage_dir = Root THEN e
    ELSE IF ~fixHardLinkRewrites(e, storage_dir)
         THEN [e EXCEPT !.link = subpath(e.link, depth(storage_dir))]
    ELSE updateSizes([e EXCEPT !.link = subpath(e.link, depth(storage_dir))])

\* TarEntry::fixHardLink(storage_dir): the entry it leaves
fixHardLink(e, storage_dir) ==
    IF storage_dir = Root THEN e
    ELSE IF ~fixHardLinkRewrites(e, storage_dir) THEN e
    ELSE updateSizes([e EXCEPT !.link = subpath(e.link, depth(storage_dir))])

\* TarEntry::fixHardLink(storage_dir): the value it returns
fixHardLinkReturn(e, storage_dir) ==
    IF storage_dir = Root THEN TRUE
    ELSE fixHardLinkRewrites(e, storage_dir)

----------------------------------------------------------------------------
(* Fingerprint *)

\* fixEndian on a 64-bit value: its eight bytes, most significant first.  The
\* values of the model are below 2^31, so the upper four bytes are zero.
fixEndian(x) == [i \in 1..8 |-> IF i <= 4 THEN 0 ELSE (x \div (256 ^ (8 - i))) % 256]

\* SHA256 of the bytes text followed by the bytes nums: the digest stands for
\* its input (no collisions).
SHA256(text, nums) == [text |-> text, nums |-> nums]

\* A digest that covers the absolute source path instead of the tarpath.
calculateSHA256HashOfAbspath(e) ==
    SHA256(str(e.abspath),
           fixEndian(e.fs.size) \o fixEndian(e.fs.mtim[1]) \o fixEndian(e.fs.mtim[2]))

\* TarEntry::calculateSHA256Hash: the digest it stores in sha256_hash_
calculateSHA256Hash(e) ==
    SHA256(str(e.tarpath),
           fixEndian(e.fs.size) \o fixEndian(e.fs.mtim[1]) \o fixEndian(e.fs.mtim[2]))

\* TarEntry::calculateHash
calculateHash(e) == [e EXCEPT !.sha256_hash = calculateSHA256Hash(e)]

----------------------------------------------------------------------------
(* TarEntry::copy *)

\* What copy writes into buf is kept as a run of segments [k, s, n]: n bytes
\* taken from index s on of the header scratch buffer tmp (k = "hdr"), of the
\* source file ("file"), of the content vector ("virt"), of the memory past the
\* end of the content vector ("oob"), or n zero bytes ("zero", s = 0).
Seg(k, s, n) == [k |-> k, s |-> s, n |-> n]

Segs(k, s, n) == IF n > 0 THEN <<Seg(k, s, n)>> ELSE <<>>

\* The outcome of the system calls of one copy call: whether open succeeds,
\* whether pread succeeds, and the length the file has when it is read.
IO(open_ok, pread_ok, file_len) ==
    [open_ok |-> open_ok, pread_ok |-> pread_ok, file_len |-> file_len]

\* pread(fd, buf, size, off) on a file of file_len bytes: the bytes it returns.
pread(file_len, size, off) == IF off >= file_len THEN 0 ELSE Min(size, file_len - off)

\* A copy that leaves the padding out.
copyRemainderForgotten(copied, size) == 0

\* The last step of copy: zero fill up to the next multiple of 512 of the
\* bytes copied by this call, as far as the requested size allows.
copyRemainder(copied, size) ==
    LET remainder == IF copied % T_BLOCKSIZE = 0 THEN 0
                     ELSE T_BLOCKSIZE - (copied % T_BLOCKSIZE)
    IN  IF remainder > size THEN size ELSE remainder

\* The header copy builds in tmp for entry e: the parts it writes, in the order
\* it writes them, each with the offset p it is written at and its length.
copyHeader(e) ==
    LET ll == numLongLinkBlocks(e.link)
        lp == numLongPathBlocks(e.tarpath)
    IN  (IF ll > 0 THEN <<[part |-> "longlink", at |-> 0, n |-> ll * T_BLOCKSIZE]>> ELSE <<>>)
        \o (IF lp > 0 THEN <<[part |-> "longpath", at |-> ll * T_BLOCKSIZE,
                              n |-> lp * T_BLOCKSIZE]>> ELSE <<>>)
        \o <<[part |-> "core", at |-> (ll + lp) * T_BLOCKSIZE, n |-> T_BLOCKSIZE]>>

\* A failure that hands back the count of the header bytes already copied.
copyFailedReturnsCopied(hbuf, copied, fd_left, overflow) ==
    [ret |-> copied, buf |-> hbuf, failure |-> TRUE, fd_left |-> fd_left,
     oob |-> FALSE, overflow |-> overflow]

\* failure(...); return 0: what copy leaves when open or pread has failed,
\* hbuf being the header bytes (copied of them) it had written to buf before.
copyFailed(hbuf, copied, fd_left, overflow) ==
    [ret |-> 0, buf |-> hbuf, failure |-> TRUE, fd_left |-> fd_left,
     oob |-> FALSE, overflow |-> overflow]

\* size_t TarEntry::copy(char *buf, size_t size, size_t from): the value it
\* returns (ret), the bytes it has written to buf, whether failure() was
\* reported, the descriptors it leaves open, whether it read past the end of
\* the content vector (oob) and whether the header it builds is larger than
\* the scratch buffer tmp[header_size_] (overflow).
copy(e, size, from, io) ==
    LET inHeader == size > 0 /\ from < e.header_size
        hlen  == IF inHeader THEN Min(e.header_size - from, size) ELSE 0
        hbuf  == Segs("hdr", from, hlen)
        needed == (numLongLinkBlocks(e.link) + numLongPathBlocks(e.tarpath) + 1) * T_BLOCKSIZE
        overflow == inHeader /\ needed > e.header_size
        size1 == size - hlen
        from1 == from + hlen
        inContent == /\ size1 > 0 /\ hlen < e.blocked_size
                     /\ from1 >= e.header_size /\ from1 < e.blocked_size
        off   == from1 - e.header_size
        \* content.size() - off is unsigned: past the end it wraps to a value
        \* above any size, and len becomes size.
        vlen  == IF off > e.content THEN size1 ELSE Min(e.content - off, size1)
        l     == pread(io.file_len, size1, off)
        clen  == IF ~inContent THEN 0 ELSE IF e.virtual_file THEN vlen ELSE l
        cbuf  == IF ~inContent THEN <<>>
                 ELSE IF e.virtual_file
                      THEN Segs(IF off > e.content THEN "oob" ELSE "virt", off, vlen)
                      ELSE Segs("file", off, l)
        copied == hlen + clen
        remainder == copyRemainder(copied, size1 - clen)
    IN  IF inContent /\ ~e.virtual_file /\ ~io.open_ok
          THEN copyFailed(hbuf, hlen, 0, overflow)
        ELSE IF inContent /\ ~e.virtual_file /\ ~io.pread_ok
          THEN copyFailed(hbuf, hlen, 1, overflow)
        ELSE [ret |-> copied + remainder,
              buf |-> hbuf \o cbuf \o Segs("zero", 0, remainder),
              failure |-> FALSE, fd_left |-> 0,
              oob |-> inContent /\ e.virtual_file /\ off > e.content /\ vlen > 0,
              overflow |-> overflow]

\* buf followed by one more segment, adjoining runs joined.
AppendSeg(buf, g) ==
    IF buf = <<>> THEN <<g>>
    ELSE LET h == buf[Len(buf)]
         IN  IF h.k = g.k /\ (g.k = "zero" \/ h.s + h.n = g.s)
             THEN [buf EXCEPT ![Len(buf)] = Seg(h.k, h.s, h.n + g.n)]
             ELSE Append(buf, g)

RECURSIVE AppendSegs(_, _, _)
AppendSegs(buf, more, i) ==
    IF i > Len(more) THEN buf ELSE AppendSegs(AppendSeg(buf, more[i]), more, i + 1)

\* The bytes of buf followed by the bytes of more.
Concat(buf, more) == AppendSegs(buf, more, 1)

----------------------------------------------------------------------------
(* The inputs the model draws from *)

Abs(atoms) == Root \o atoms

LongAtom == [i \in 1..(MaxNameLen + 1) |-> "x"]

Times == [mtim |-> <<5, 7>>, atim |-> <<6, 0>>, ctim |-> <<5, 7>>]

Stat(type, ino, size) == FileStat(type, ino, size, 0, 0, Times.mtim, Times.atim, Times.ctim)

\* The file tree the walk visits: each object's path, its stat record and, for
\* a symbolic link, what readlink returns (lstat reports the length of the
\* destination as st_size).  The three files of inode 1 are hard links of
\* one another: inside one directory, across directories and under a long name.
World ==
    { [path |-> Abs(<< <<"a">>, <<"b">>, <<"c">>, <<"d">> >>), stat |-> Stat("REG", 1, 745), dest |-> <<>>],
      [path |-> Abs(<< <<"a">>, <<"b">>, <<"e">> >>),          stat |-> Stat("REG", 1, 745), dest |-> <<>>],
      [path |-> Abs(<< <<"a">>, <<"x">>, <<"y">> >>),          stat |-> Stat("REG", 1, 745), dest |-> <<>>],
      [path |-> Abs(<< <<"a">>, <<"b">>, LongAtom, <<"f">> >>), stat |-> Stat("REG", 1, 745), dest |-> <<>>],
      [path |-> Abs(<< <<"a">>, <<"b">>, <<"z">> >>),          stat |-> Stat("REG", 2, 0), dest |-> <<>>],
      [path |-> Abs(<< <<"a">>, <<"b">>, <<"c">> >>),          stat |-> Stat("DIR", 3, 4096), dest |-> <<>>],
      [path |-> Abs(<< <<"a">>, <<"b">>, <<"s">> >>),          stat |-> Stat("LNK", 4, 1), dest |-> <<"t">>],
      [path |-> Abs(<< <<"a">>, <<"b">>, <<"l">> >>),
       stat |-> Stat("LNK", 5, MaxNameLen + 1), dest |-> LongAtom],
      [path |-> Abs(<< <<"a">>, <<"b">>, <<"p">> >>),          stat |-> Stat("FIFO", 6, 0), dest |-> <<>>],
      [path |-> Abs(<< <<"a">>, <<"b">>, <<"t">> >>),
       stat |-> FileStat("CHR", 7, 0, 8, 1, Times.mtim, Times.atim, Times.ctim), dest |-> <<>>] }

StorageDirs ==
    { Root,
      Abs(<< <<"a">>, <<"b">> >>),
      Abs(<< <<"a">>, <<"b">>, LongAtom >>) }

Styles == {"None", "Simple", "Full"}

VirtualSizes == {10, 600}

----------------------------------------------------------------------------
(* The life of the entries: construction, tarpath, hard links *)

Live(i) == entries[i] # NoEntry

Running == aborted = "none"

\* No copy call, sweep or catalog record is under way: the program is
\* single-threaded, and a reader takes the bytes of one call before anything
\* else happens.
Idle == served = NoCall /\ sweep = NoCall /\ cat = NoCall

\* The walk constructs an entry for an object of the tree w it has not
\* visited yet.
ConstructFrom(i, w) ==
    /\ Running /\ Idle /\ ~Live(i) /\ (\A j \in 1..(i - 1) : Live(j))
    /\ \E o \in w :
          /\ \A j \in Ids : Live(j) => entries[j].path # o.path
          /\ entries' = [entries EXCEPT
                           ![i] = TarEntryStat(o.path, o.path, o.stat, style, o.dest)]
          /\ aborted' = IF updateSizesOk(TarEntryStatFields(o.path, o.path, o.stat, style, o.dest))
                        THEN "none" ELSE "updateSizes assert"
    /\ last' = NoCall
    /\ served' = NoCall /\ sweep' = NoCall
    /\ UNCHANGED <<style, cat, tree, config>>

Construct(i) == ConstructFrom(i, World)

\* readlink fails in the constructor: error() ends the process.
ConstructLinkFails(i) ==
    /\ Running /\ Idle /\ ~Live(i) /\ (\A j \in 1..(i - 1) : Live(j))
    /\ aborted' = "readlink error"
    /\ last' = NoCall
    /\ served' = NoCall /\ sweep' = NoCall
    /\ UNCHANGED <<style, entries, cat, tree, config>>

\* An entry for a synthetic file of a declared size.
ConstructVirtual(i) ==
    /\ Running /\ Idle /\ ~Live(i) /\ (\A j \in 1..(i - 1) : Live(j))
    /\ \E n \in VirtualSizes : entries' = [entries EXCEPT ![i] = TarEntrySize(n, style)]
    /\ last' = NoCall
    /\ served' = NoCall /\ sweep' = NoCall
    /\ UNCHANGED <<style, aborted, cat, tree, config>>

\* setContent with a buffer of n bytes; its assert compares n with st_size.
SetContent(i) ==
    /\ Running /\ Idle /\ Live(i) /\ entries[i].ctor = "size" /\ ~entries[i].virtual_file
    /\ \E n \in VirtualSizes :
          /\ entries' = [entries EXCEPT ![i] = setContent(entries[i], n)]
          /\ aborted' = IF setContentAssert(entries[i], n) THEN "none" ELSE "setContent assert"
    /\ last' = NoCall
    /\ served' = NoCall /\ sweep' = NoCall
    /\ UNCHANGED <<style, cat, tree, config>>

\* The entry is assigned to the tar of a storage directory above it, one of dirs.
CalculateTarpathIn(i, dirs) ==
    /\ Running /\ Idle /\ Live(i) /\ entries[i].ctor = "stat"
    /\ \E sd \in dirs :
          /\ IsPrefix(sd, entries[i].path)
          /\ entries' = [entries EXCEPT ![i] = calculateTarpath(entries[i], sd)]
    /\ last' = NoCall
    /\ served' = NoCall /\ sweep' = NoCall
    /\ UNCHANGED <<style, aborted, cat, tree, config>>

CalculateTarpath(i) == CalculateTarpathIn(i, StorageDirs)

\* Entry i turns out to share its inode with entry j, seen earlier.
RewriteIntoHardLink(i) ==
    /\ Running /\ Idle /\ Live(i) /\ entries[i].ctor = "stat"
    /\ \E j \in Ids \ {i} :
          /\ Live(j) /\ entries[j].ctor = "stat"
          /\ entries[j].fs = entries[i].fs /\ entries[i].fs.type \notin {"DIR", "LNK"}
          /\ ~entries[i].is_hard_linked /\ ~entries[j].is_hard_linked
          /\ LET e == [entries[i] EXCEPT !.link = entries[j].tarpath, !.is_hard_linked = TRUE]
             IN  /\ entries' = [entries EXCEPT ![i] = rewriteIntoHardLink(entries[i], entries[j])]
                 /\ aborted' = IF updateSizesOk(e) THEN "none" ELSE "updateSizes assert"
    /\ last' = NoCall
    /\ served' = NoCall /\ sweep' = NoCall
    /\ UNCHANGED <<style, cat, tree, config>>

\* The hard link of entry i is resolved within a storage directory above it.
FixHardLink(i) ==
    /\ Running /\ Idle /\ Live(i) /\ entries[i].is_hard_linked
    /\ \E sd \in StorageDirs :
          /\ IsPrefix(sd, entries[i].path)
          /\ entries' = [entries EXCEPT ![i] = fixHardLink(entries[i], sd)]
          /\ aborted' = IF fixHardLinkRewrites(entries[i], sd)
                           /\ ~updateSizesOk([entries[i] EXCEPT
                                                !.link = subpath(entries[i].link, depth(sd))])
                        THEN "updateSizes assert" ELSE "none"
          /\ last' = [op |-> "fixHardLink", id |-> i, arg |-> sd,
                      ret |-> fixHardLinkReturn(entries[i], sd)]
    /\ served' = NoCall /\ sweep' = NoCall
    /\ UNCHANGED <<style, cat, tree, config>>

Init ==
    /\ style \in Styles
    /\ entries = [i \in Ids |-> NoEntry]
    /\ last = NoCall
    /\ aborted = "none"
    /\ served = NoCall
    /\ sweep = NoCall
    /\ cat = NoCall
    /\ tree = NoCall
    /\ config = NoCall

Next ==
    \E i \in Ids :
        \/ Construct(i)
        \/ ConstructLinkFails(i)
        \/ ConstructVirtual(i)
        \/ SetContent(i)
        \/ CalculateTarpath(i)
        \/ RewriteIntoHardLink(i)
        \/ FixHardLink(i)

Spec == Init /\ [][Next]_vars

----------------------------------------------------------------------------
(* Serving byte ranges *)

\* The part of the tree the served entries come from.
CopyWorld ==
    { o \in World : \/ o.stat.type = "REG"
                    \/ (o.stat.type = "LNK" /\ Len(o.dest) > MaxNameLen) }

Froms == {0, 100, 512, 600, 1300}

Sizes == {1, 100, 512, 1024, 1536, 2000}

Chunks == {100, 512, 1000}

\* An entry copy can be called on: made from a stat record, or given content.
Servable(e) == e.ctor = "stat" \/ e.virtual_file

\* The source file as the walk saw it, readable.
GoodIO(e) == IO(TRUE, TRUE, e.fs.size)

\* What the file system may answer: the file as it was, a file that cannot be
\* opened, a read that fails, a file that has shrunk since the walk.
IOs(e) ==
    IF e.virtual_file THEN {GoodIO(e)}
    ELSE {GoodIO(e), IO(FALSE, TRUE, e.fs.size), IO(TRUE, FALSE, e.fs.size),
          IO(TRUE, TRUE, e.fs.size \div 2)}

ConstructServed(i) == ConstructFrom(i, CopyWorld)

\* A copy call that marks the entry as handed out.
copyMarksEntry(e) == [e EXCEPT !.tar_offset = @ + T_BLOCKSIZE]

\* The entry after a copy call: the call reads header_size_, blocked_size_,
\* fs_, tarpath_, link_ and content and assigns no member.
copyLeaves(e) == e

\* One copy call on entry i, made between two sweeps or, for the first block
\* of a readable entry, while a reader is in the middle of a sweep of another
\* entry.  A read past the end of the content vector or a
\* header larger than the scratch buffer is undefined: the call may crash,
\* or go on with whatever bytes it found.
Copy(i) ==
    /\ Running /\ Live(i) /\ Servable(entries[i])
    /\ served = NoCall /\ cat = NoCall
    /\ IF sweep = NoCall THEN TRUE
       ELSE sweep.st = "run" /\ sweep.pos > 0 /\ sweep.id # i
    /\ \E from \in Froms, size \in Sizes, io \in IOs(entries[i]) :
          LET e == entries[i]
              r == copy(e, size, from, io)
          IN  /\ from < e.blocked_size
              /\ sweep = NoCall \/ (from = 0 /\ size = T_BLOCKSIZE /\ io = GoodIO(e))
              /\ (io = GoodIO(e) \/ r # copy(e, size, from, GoodIO(e)))
              /\ served' = [op |-> "copy", id |-> i, size |-> size, from |-> from, io |-> io,
                            ret |-> r.ret, buf |-> r.buf, failure |-> r.failure,
                            fd_left |-> r.fd_left, oob |-> r.oob, overflow |-> r.overflow]
              /\ aborted' \in (IF r.oob \/ r.overflow THEN {"none", "copy crashed"} ELSE {"none"})
              /\ entries' = [entries EXCEPT ![i] = copyLeaves(e)]
    /\ last' = NoCall
    /\ UNCHANGED <<style, sweep, cat, tree, config>>

\* A reader starts to sweep entry i from offset 0 in calls of chunk bytes.
SweepStart(i) ==
    /\ Running /\ Idle /\ Live(i) /\ Servable(entries[i]) /\ entries[i].blocked_size > 0
    /\ \E chunk \in Chunks :
          sweep' = [op |-> "sweep", id |-> i, chunk |-> chunk, pos |-> 0, out |-> <<>>,
                    st |-> "run"]
    /\ last' = NoCall /\ served' = NoCall
    /\ UNCHANGED <<style, entries, aborted, cat, tree, config>>

\* The next call of the sweep starts where the previous one ended and asks for
\* chunk bytes, or for what is left of the entry.  The sweep is done at
\* blocked_size, and stuck when a call returns nothing.
SweepStep ==
    /\ Running /\ sweep.op = "sweep" /\ sweep.st = "run" /\ served = NoCall
    /\ LET e == entries[sweep.id]
           r == copy(e, Min(sweep.chunk, e.blocked_size - sweep.pos), sweep.pos, GoodIO(e))
       IN  /\ sweep' = [sweep EXCEPT
                          !.pos = sweep.pos + r.ret,
                          !.out = Concat(sweep.out, r.buf),
                          !.st = IF r.ret = 0 THEN "stuck"
                                 ELSE IF sweep.pos + r.ret >= e.blocked_size THEN "done"
                                 ELSE "run"]
           /\ aborted' \in (IF r.oob \/ r.overflow THEN {"none", "copy crashed"} ELSE {"none"})
           /\ entries' = [entries EXCEPT ![sweep.id] = copyLeaves(e)]
    /\ UNCHANGED <<style, last, served, cat, tree, config>>

\* The reader has taken the bytes of the last call, or of the whole sweep.
Consume ==
    /\ Running
    /\ served # NoCall \/ (sweep # NoCall /\ sweep.st # "run")
    /\ served' = NoCall
    /\ sweep' = IF served # NoCall /\ sweep # NoCall THEN sweep ELSE NoCall
    /\ UNCHANGED <<style, entries, last, aborted, cat, tree, config>>

NextCopy ==
    \/ \E i \in Ids :
          \/ ConstructServed(i)
          \/ ConstructVirtual(i)
          \/ SetContent(i)
          \/ RewriteIntoHardLink(i)
          \/ Copy(i)
          \/ SweepStart(i)
    \/ SweepStep
    \/ Consume

SpecCopy == Init /\ [][NextCopy]_vars

----------------------------------------------------------------------------
(* Claims about copy *)

\* The content bytes an entry carries: st_size for a regular file that is not
\* hard-linked, none for any other entry.
ContentBytes(e) == IF e.fs.type = "REG" /\ ~e.is_hard_linked THEN e.fs.size ELSE 0

\* The last call was a copy call on a source that is readable and unchanged.
ServedReadable ==
    /\ served.op = "copy"
    /\ served.io = GoodIO(entries[served.id])

\* C1: for from in [0, blocked_size) and size >= 1, copy on a readable source
\* returns exactly min(size, blocked_size - from).
C1_CopyReturnsMin ==
    ServedReadable =>
        served.ret = Min(served.size, entries[served.id].blocked_size - served.from)

\* C2: a sweep of successive copy calls from 0 up to blocked_size ends at
\* blocked_size and yields the bytes of the single call copy(buf, blocked_size, 0).
C2_SweepEqualsWholeCopy ==
    (sweep.op = "sweep" /\ sweep.st # "run") =>
        LET e == entries[sweep.id]
        IN  /\ sweep.st = "done"
            /\ sweep.pos = e.blocked_size
            /\ sweep.out = copy(e, e.blocked_size, 0, GoodIO(e)).buf

\* The length of the content an entry serves after its header.
ContentLen(e) == IF e.virtual_file THEN e.content ELSE ContentBytes(e)

RECURSIVE BytesBefore(_, _)
\* The number of bytes of buf that precede its segment j.
BytesBefore(buf, j) == IF j <= 1 THEN 0 ELSE BytesBefore(buf, j - 1) + buf[j - 1].n

\* C3: of the bytes copy produces, those at an entry position p inside the
\* content are the source bytes at p - header_size, those in the padding
\* after the content are zero, and none is read from outside the content.
C3_ContentExactPaddingZero ==
    ServedReadable =>
        LET e == entries[served.id]
            h == e.header_size
            c == h + ContentLen(e)
        IN  \A j \in 1..Len(served.buf) :
                LET g == served.buf[j]
                    p == served.from + BytesBefore(served.buf, j)
                    q == p + g.n
                IN  /\ g.k # "oob"
                    /\ (p < c /\ q > h /\ q > p) =>
                           (IF p >= h
                            THEN /\ g.k = (IF e.virtual_file THEN "virt" ELSE "file")
                                 /\ g.s = p - h /\ q <= c
                            ELSE g.k = "hdr" /\ q <= h)
                    /\ (p < e.blocked_size /\ q > c /\ p >= h) => (p >= c /\ g.k = "zero")

----------------------------------------------------------------------------
(* Layout of an entry *)

\* C4: in every reachable state of an entry header_size <= blocked_size and
\* blocked_size is a multiple of T_BLOCKSIZE.
C4_HeaderWithinBlockedSize ==
    \A i \in Ids :
        Live(i) => /\ entries[i].header_size <= entries[i].blocked_size
                   /\ entries[i].blocked_size % T_BLOCKSIZE = 0

\* A regular file with content, moved to another tarpath and rewritten into a
\* hard link, beside an entry with content blocks after its header.
C4_Witness ==
    \E i, j \in Ids :
        /\ Live(i) /\ entries[i].is_hard_linked /\ entries[i].tarpath # entries[i].path
        /\ entries[i].header_size = T_BLOCKSIZE
        /\ Live(j) /\ entries[j].blocked_size > entries[j].header_size
        /\ entries[j].header_size > 0

\* C5: a hard-linked entry occupies exactly one block, and the assert of
\* updateSizes that says so never fails.
C5_HardLinkIsOneBlock ==
    /\ aborted # "updateSizes assert"
    /\ \A i \in Ids :
           (Live(i) /\ entries[i].is_hard_linked) => entries[i].blocked_size = T_BLOCKSIZE

\* C6: after updateSizes blocked_size is header_size plus the content bytes
\* rounded up to the next multiple of 512; every entry made from a stat record
\* has had updateSizes run on its current type, size and hard-link flag.
C6_BlockedSizeIsHeaderPlusContent ==
    \A i \in Ids :
        (Live(i) /\ entries[i].ctor = "stat") =>
            LET c == ContentBytes(entries[i])
                blocks == (c + T_BLOCKSIZE - 1) \div T_BLOCKSIZE
            IN  entries[i].blocked_size = entries[i].header_size + blocks * T_BLOCKSIZE

\* A symbolic link whose st_size is not zero takes its header and nothing
\* more, beside a regular file of 745 bytes that takes two content blocks.
C6_Witness ==
    \E i, j \in Ids :
        /\ Live(i) /\ entries[i].fs.type = "LNK" /\ entries[i].fs.size > 0
        /\ entries[i].header_size > 0 /\ entries[i].blocked_size = entries[i].header_size
        /\ Live(j) /\ entries[j].fs.type = "REG" /\ entries[j].fs.size = 745
        /\ entries[j].blocked_size = entries[j].header_size + 2 * T_BLOCKSIZE

----------------------------------------------------------------------------
(* Hard-link resolution *)

\* The target of the link lies in the subtree of storage_dir: their common
\* prefix is storage_dir itself.
LinkInside(e, storage_dir) ==
    /\ Len(e.link) >= Len(storage_dir)
    /\ \A k \in 1..Len(storage_dir) : e.link[k] = storage_dir[k]

\* C7: a fixHardLink call that does not rewrite (storage_dir is the root, or
\* the link target is not inside storage_dir) leaves the entry as it was, and
\* returns true for the root and false otherwise.
C7_FixHardLinkKeepsEntry ==
    [][\A i \in Ids :
          (/\ last'.op = "fixHardLink" /\ last'.id = i
           /\ (last'.arg = Root \/ ~LinkInside(entries[i], last'.arg)))
          => /\ entries'[i] = entries[i]
             /\ last'.ret = (last'.arg = Root)
             /\ aborted' = "none"]_vars

\* A call has reported "needs promotion" for a link that leaves the storage
\* directory.
C7_Witness ==
    /\ last.op = "fixHardLink" /\ last.ret = FALSE /\ last.arg # Root
    /\ entries[last.id].is_hard_linked
    /\ Len(entries[last.id].link) > 1

\* C8: a fixHardLink call for a storage_dir that is not the root and holds the
\* link target returns true, leaves the link with the storage_dir prefix
\* stripped, and header_size and blocked_size computed from the new link.
C8_FixHardLinkStripsPrefix ==
    [][\A i \in Ids :
          (/\ last'.op = "fixHardLink" /\ last'.id = i
           /\ last'.arg # Root /\ LinkInside(entries[i], last'.arg)
           /\ Len(entries[i].link) > Len(last'.arg))
          => /\ aborted' = "none"
             /\ last'.ret = TRUE
             /\ entries'[i].link = SubSeq(entries[i].link, Len(last'.arg) + 1, Len(entries[i].link))
             /\ entries'[i].header_size =
                    IF entries[i].tar_header_style = "None" THEN 0
                    ELSE calculateSize(entries[i].fs, entries[i].tarpath,
                                       entries'[i].link, TRUE)
             /\ entries'[i].blocked_size = entries'[i].header_size]_vars

----------------------------------------------------------------------------
(* The fingerprint of an entry *)

\* Two source trees, /m and /n, are walked with the same relative paths: an
\* object's abspath is its path under the tree it was found in.  Objects that
\* end up with the same tarpath, size and mtime differ in source tree, type,
\* permissions, owner, inode, the other timestamps, or link.
HashWorld ==
    { [abs |-> <<"m">>, path |-> Abs(<< <<"a">>, <<"b">>, <<"e">> >>),
       stat |-> Stat("REG", 1, 745), dest |-> <<>>],
      [abs |-> <<"m">>, path |-> Abs(<< <<"a">>, <<"b">>, <<"c">>, <<"d">> >>),
       stat |-> Stat("REG", 1, 745), dest |-> <<>>],
      [abs |-> <<"n">>, path |-> Abs(<< <<"a">>, <<"x">>, <<"e">> >>),
       stat |-> [FileStat("REG", 8, 745, 0, 0, Times.mtim, <<9, 1>>, <<9, 2>>)
                   EXCEPT !.perm = 384, !.uid = 0, !.gid = 0], dest |-> <<>>],
      [abs |-> <<"m">>, path |-> Abs(<< <<"a">>, <<"b">>, <<"s">> >>),
       stat |-> Stat("LNK", 4, 1), dest |-> <<"t">>],
      [abs |-> <<"n">>, path |-> Abs(<< <<"a">>, <<"x">>, <<"s">> >>),
       stat |-> Stat("REG", 10, 1), dest |-> <<>>] }

HashStorageDirs ==
    { Abs(<< <<"a">>, <<"b">> >>), Abs(<< <<"a">>, <<"x">> >>) }

\* The walk of a source tree constructs an entry: abspath and path differ.
ConstructHashed(i) ==
    /\ Running /\ Idle /\ ~Live(i) /\ (\A j \in 1..(i - 1) : Live(j))
    /\ \E o \in HashWorld :
          LET ap == Abs(<<o.abs>>) \o SubSeq(o.path, 2, Len(o.path))
          IN  /\ \A j \in Ids : Live(j) => entries[j].path # o.path
              /\ entries' = [entries EXCEPT
                               ![i] = TarEntryStat(ap, o.path, o.stat, style, o.dest)]
              /\ aborted' = IF updateSizesOk(TarEntryStatFields(ap, o.path, o.stat, style, o.dest))
                            THEN "none" ELSE "updateSizes assert"
    /\ last' = NoCall
    /\ served' = NoCall /\ sweep' = NoCall
    /\ UNCHANGED <<style, cat, tree, config>>

CalculateTarpathHashed(i) == CalculateTarpathIn(i, HashStorageDirs)

\* TarEntry::calculateHash on entry i
CalculateHash(i) ==
    /\ Running /\ Idle /\ Live(i)
    /\ entries' = [entries EXCEPT ![i] = calculateHash(entries[i])]
    /\ last' = [op |-> "calculateHash", id |-> i]
    /\ served' = NoCall /\ sweep' = NoCall
    /\ UNCHANGED <<style, aborted, cat, tree, config>>

NextHash ==
    \E i \in Ids :
        \/ ConstructHashed(i)
        \/ CalculateTarpathHashed(i)
        \/ RewriteIntoHardLink(i)
        \/ CalculateHash(i)

SpecHash == Init /\ [][NextHash]_vars

\* Two entries agree on what the fingerprint is said to depend on.
SameFingerprintInputs(d, e) ==
    /\ d.tarpath = e.tarpath
    /\ d.fs.size = e.fs.size
    /\ d.fs.mtim = e.fs.mtim

\* C9: the digest calculateHash has just stored for an entry is the digest it
\* computes for every entry that has the same tarpath, st_size and mtime
\* seconds and nanoseconds, whatever else differs between the two.
C9_FingerprintOfFourValues ==
    last.op = "calculateHash" =>
        \A j \in Ids :
            (Live(j) /\ SameFingerprintInputs(entries[last.id], entries[j]))
            => entries[last.id].sha256_hash = calculateSHA256Hash(entries[j])

\* Two entries with the same four values and the same stored digest, found
\* in different source trees with different permissions, owners and access
\* times.
C9_Witness ==
    /\ last.op = "calculateHash"
    /\ \E j \in Ids \ {last.id} :
          /\ Live(j) /\ SameFingerprintInputs(entries[last.id], entries[j])
          /\ entries[j].sha256_hash # NULL
          /\ entries[j].sha256_hash = entries[last.id].sha256_hash
          /\ entries[j].abspath # entries[last.id].abspath
          /\ entries[j].fs.perm # entries[last.id].fs.perm
          /\ entries[j].fs.atim # entries[last.id].fs.atim
          /\ entries[j].fs.uid # entries[last.id].fs.uid

----------------------------------------------------------------------------
(* The catalog line: cookEntry and eatEntry *)

\* Stands for the separator argument -1 of eatTo: no character is equal to it.
NoChar == ""

\* eatTo(v, i, c, max, eof, err): the characters of v from position i up to the
\* next c (to the end of v for NoChar), at most max of them.  The c is
\* consumed; a missing c is an error, and then the string returned is empty.
\* eof tells that the position is left at the end of v.
eatTo(v, i, c, max) ==
    LET end == Len(v) + 1
        stop(at) == Min(Min(IF at = 0 THEN end ELSE at, i + max), end)
    IN  Let(stop(IF c = NoChar THEN 0 ELSE FindFrom(v, c, i)),
            LAMBDA p :
              IF c # NoChar /\ (p = end \/ v[p] # c)
              THEN [s |-> <<>>, i |-> p, eof |-> (p = end), err |-> TRUE]
              ELSE [s |-> SubSeq(v, i, p - 1),
                    i |-> IF p = end THEN p ELSE p + 1,
                    eof |-> (IF p = end THEN p ELSE p + 1) = end,
                    err |-> FALSE])

TypeOfChar(c) ==
    CASE c = "d" -> "DIR" [] c = "l" -> "LNK" [] c = "c" -> "CHR"
      [] c = "b" -> "BLK" [] c = "p" -> "FIFO" [] c = "-" -> "REG" [] OTHER -> "NONE"

RECURSIVE PermOf(_, _)
\* The value of the nine rwx characters of s from the kth on.
PermOf(s, k) ==
    IF k > 9 THEN 0
    ELSE (IF s[k + 1] = "-" THEN 0 ELSE 2 ^ (9 - k)) + PermOf(s, k + 1)

\* The mode 0 that stringToPermission returns for a string it cannot read.
NoMode == [type |-> "NONE", perm |-> 0]

\* stringToPermission(s): the mode a permission string stands for, NoMode for
\* a string that is not a type character followed by nine rwx characters.
stringToPermission(s) ==
    IF /\ Len(s) = 10
       /\ TypeOfChar(s[1]) # "NONE"
       /\ \A k \in 1..9 : s[k + 1] \in {RwxChars[k], "-"}
    THEN [type |-> TypeOfChar(s[1]), perm |-> PermOf(s, 1)]
    ELSE NoMode

\* toHex of a digest: 64 hexadecimal digits, none for a digest never computed.
\* The digest of the model has no bytes, so each digit is written "h".
toHex(hash) == IF hash = NULL THEN <<>> ELSE [k \in 1..64 |-> "h"]

\* s.substr(0, s.find(c)): all of s when c is not found.
Before(s, c) ==
    LET k == FindFrom(s, c, 1) IN IF k = 0 THEN s ELSE SubSeq(s, 1, k - 1)

\* s.substr(s.find(c) + 1): all of s when c is not found.
After(s, c) ==
    LET k == FindFrom(s, c, 1) IN IF k = 0 THEN s ELSE SubSeq(s, k + 1, Len(s))

SymLinkTag == <<" ", "-", ">", " ">>

HardLinkTag == <<" ", "l", "i", "n", "k", " ", "t", "o", " ">>

\* The link descriptor cookEntry writes.
cookLink(entry) ==
    IF entry.link # NULL
    THEN (IF isSymbolicLink(entry) THEN SymLinkTag ELSE HardLinkTag) \o str(entry.link)
    ELSE <<" ">>

\* cookEntry(listing, entry): the text it appends to the listing.
cookEntry(entry) ==
    entry.tv_line_left \o separator_string
    \o entry.tv_line_size \o separator_string
    \o entry.tv_line_right \o separator_string
    \o str(entry.tarpath) \o separator_string
    \o cookLink(entry) \o separator_string
    \o entry.tar_file \o separator_string
    \o ToDec(entry.tar_offset + entry.header_size) \o separator_string
    \o <<"0">> \o separator_string
    \o toHex(entry.sha256_hash) \o <<"\\n">>
    \o separator_string

\* eatEntry runs as a sequence of steps over a record r: the listing v and the
\* position i in it, dir_to_prepend, the flags *eof and *err, the outputs
\* (fs, offset, tar, path, link, is_sym_link) as the steps so far have left
\* them, the string s that the last eatTo returned, whether the function has
\* returned (done) and what (ret), and whether it has called pop_back on an
\* empty string (ub).
EatStart(v, i, dir_to_prepend, fs) ==
    [v |-> v, i |-> i, dir |-> dir_to_prepend, eof |-> FALSE, err |-> FALSE,
     fs |-> fs, offset |-> 0, tar |-> <<>>, path |-> NULL, link |-> <<>>,
     is_sym_link |-> FALSE, s |-> <<>>, done |-> FALSE, ret |-> FALSE, ub |-> FALSE]

\* eatTo(v, i, separator, max, eof, err)
EatField(r, max) ==
    Let(eatTo(r.v, r.i, separator, max),
        LAMBDA f : [r EXCEPT !.i = f.i, !.eof = f.eof, !.err = f.err, !.s = f.s])

\* return false
ReturnFalse(r) == [r EXCEPT !.done = TRUE, !.ret = FALSE]

\* if (*err || *eof) return false
ReturnIfErrOrEof(r) == IF r.err \/ r.eof THEN ReturnFalse(r) ELSE r

eatPermission(r) ==
    Let(ReturnIfErrOrEof(EatField(r, 32)),
        LAMBDA r1 :
          IF r1.done THEN r1
          ELSE Let(stringToPermission(r1.s),
                   LAMBDA m :
                     IF m = NoMode
                     THEN ReturnFalse([r1 EXCEPT !.fs.type = m.type, !.fs.perm = m.perm,
                                                 !.err = TRUE])
                     ELSE [r1 EXCEPT !.fs.type = m.type, !.fs.perm = m.perm]))

eatUidGid(r) ==
    Let(ReturnIfErrOrEof(EatField(r, 32)),
        LAMBDA r1 :
          IF r1.done THEN r1
          ELSE [r1 EXCEPT !.fs.uid = Atol(Before(r1.s, "/")),
                          !.fs.gid = Atol(After(r1.s, "/"))])

eatSize(r) ==
    Let(ReturnIfErrOrEof(EatField(r, 32)),
        LAMBDA r1 :
          IF r1.done THEN r1
          ELSE IF r1.fs.type \in {"CHR", "BLK"}
               THEN [r1 EXCEPT !.fs.major = Atol(Before(r1.s, ",")),
                               !.fs.minor = Atol(After(r1.s, ","))]
          ELSE [r1 EXCEPT !.fs.size = Atol(r1.s)])

eatDatetime(r) == ReturnIfErrOrEof(EatField(r, 32))

\* The seconds and nanoseconds of the text sn stored in the timestamp named
\* which.
eatSecsAndNanosOf(r1, sn, which) ==
    Let(eatTo(sn, 1, ".", 64),
        LAMBDA se :
          IF se.err \/ se.eof THEN ReturnFalse([r1 EXCEPT !.err = se.err, !.eof = se.eof])
          ELSE Let(eatTo(sn, se.i, NoChar, 64),
                   LAMBDA na :
                     IF na.err THEN ReturnFalse([r1 EXCEPT !.err = na.err, !.eof = na.eof])
                     ELSE [r1 EXCEPT !.err = na.err, !.eof = na.eof,
                                     !.fs[which] = <<Atol(se.s), Atol(na.s)>>]))

\* One "seconds.nanoseconds" field, stored in the timestamp named which.
eatSecsAndNanos(r, which) ==
    Let(ReturnIfErrOrEof(EatField(r, 64)),
        LAMBDA r1 : IF r1.done THEN r1 ELSE eatSecsAndNanosOf(r1, r1.s, which))

\* filename with one trailing "/" removed, unless it is all of filename.
CutSlash(filename) ==
    IF Len(filename) > 1 /\ filename[Len(filename)] = "/"
    THEN SubSeq(filename, 1, Len(filename) - 1) ELSE filename

eatPath(r) ==
    Let(ReturnIfErrOrEof(EatField(r, 1024)),
        LAMBDA r1 :
          IF r1.done THEN r1
          ELSE [r1 EXCEPT !.path = lookup(CutSlash(str(r.dir) \o <<"/">> \o r1.s))])

eatLink(r) ==
    Let(EatField(r, 1024),
        LAMBDA r0 :
          IF r0.err \/ r0.eof THEN ReturnFalse([r0 EXCEPT !.link = r0.s])
          ELSE IF Len(r0.s) > 4 /\ SubSeq(r0.s, 1, 4) = SymLinkTag
               THEN [r0 EXCEPT !.link = SubSeq(r0.s, 5, Len(r0.s)),
                               !.fs.size = Len(r0.s) - 4, !.is_sym_link = TRUE]
          ELSE IF Len(r0.s) > 9 /\ SubSeq(r0.s, 1, 9) = HardLinkTag
               THEN [r0 EXCEPT !.link = SubSeq(r0.s, 10, Len(r0.s)),
                               !.fs.size = Len(r0.s) - 9, !.is_sym_link = FALSE]
          ELSE [r0 EXCEPT !.link = r0.s, !.is_sym_link = FALSE])

eatTar(r) ==
    Let(EatField(r, 1024),
        LAMBDA r0 : ReturnIfErrOrEof([r0 EXCEPT !.tar = str(r.dir) \o <<"/">> \o r0.s]))

eatOffset(r) ==
    Let(EatField(r, 32),
        LAMBDA r0 : ReturnIfErrOrEof([r0 EXCEPT !.offset = Atol(r0.s)]))

eatContentHash(r) == ReturnIfErrOrEof(EatField(r, 65))

\* The last field: its newline is removed before *err is looked at, and end
\* of input is accepted.
eatHeaderHash(r) ==
    Let(EatField(r, 65),
        LAMBDA r0 :
          IF r0.err THEN ReturnFalse([r0 EXCEPT !.ub = (r0.s = <<>>)])
          ELSE [r0 EXCEPT !.ub = (r0.s = <<>>), !.done = TRUE, !.ret = TRUE])

\* The kth step of eatEntry, in the order of the fields of a record.
EatStep(k, r) ==
    CASE k = 1 -> eatPermission(r)
      [] k = 2 -> eatUidGid(r)
      [] k = 3 -> eatSize(r)
      [] k = 4 -> eatDatetime(r)
      [] k = 5 -> eatSecsAndNanos(r, "mtim")
      [] k = 6 -> eatSecsAndNanos(r, "atim")
      [] k = 7 -> eatSecsAndNanos(r, "ctim")
      [] k = 8 -> eatPath(r)
      [] k = 9 -> eatLink(r)
      [] k = 10 -> eatTar(r)
      [] k = 11 -> eatOffset(r)
      [] k = 12 -> eatContentHash(r)
      [] OTHER -> eatHeaderHash(r)

RECURSIVE EatSteps(_, _)
\* The steps from the kth on, until one of them returns.
EatSteps(k, r) ==
    IF r.done THEN r
    ELSE Let(EatStep(k, r), LAMBDA x : EatSteps(k + 1, x))

\* bool eatEntry(v, i, dir_to_prepend, fs, offset, tar, path, link,
\* is_sym_link, eof, err): what it returns and what it leaves in its outputs,
\* fs being the FileStat the caller hands in.
eatEntry(v, i, dir_to_prepend, fs) == EatSteps(1, EatStart(v, i, dir_to_prepend, fs))

\* The part of the tree whose entries are written to the catalog: two hard
\* links of one file, a directory, a symbolic link, a device.
CatalogWorld ==
    { o \in World :
        /\ o.path[Len(o.path)] \in {<<"d">>, <<"e">>, <<"c">>, <<"s">>, <<"t">>}
        /\ \A k \in 1..Len(o.path) : o.path[k] # LongAtom }

CatalogStorageDirs == { Abs(<< <<"a">>, <<"b">> >>) }

\* The directories the parser is asked to prepend.
CatalogDirs == { Root, Abs(<< <<"r">> >>) }

\* TarFile::name() of the tar an entry is registered in.
TarFileName == <<"t", "a", "r", "0", ".", "t", "a", "r">>

TarOffsets == {1536}

ConstructCataloged(i) == ConstructFrom(i, CatalogWorld)

CalculateTarpathCataloged(i) == CalculateTarpathIn(i, CatalogStorageDirs)

\* TarEntry::registerTarFile(tf, o)
RegisterTarFile(i) ==
    /\ Running /\ Idle /\ Live(i) /\ entries[i].tar_file = NULL
    /\ \E o \in TarOffsets :
          entries' = [entries EXCEPT ![i].tar_file = TarFileName, ![i].tar_offset = o]
    /\ last' = NoCall
    /\ served' = NoCall /\ sweep' = NoCall
    /\ UNCHANGED <<style, aborted, cat, tree, config>>

\* cookEntry on entry i, into an empty listing.  The listing of a tar is
\* written for the entries registered in it: tarFile() is dereferenced.
CookEntry(i) ==
    /\ Running /\ Idle /\ Live(i)
    /\ entries[i].tar_file # NULL
    /\ cat' = [op |-> "cooked", id |-> i, listing |-> cookEntry(entries[i])]
    /\ last' = NoCall
    /\ UNCHANGED <<style, entries, aborted, served, sweep, tree, config>>

\* eatEntry on the listing just written, from its start, with outputs that
\* the caller has zeroed.
EatEntry ==
    /\ Running /\ cat.op = "cooked"
    /\ \E d \in CatalogDirs :
          \E r \in {eatEntry(cat.listing, 1, d, ZeroStat)} :
              cat' = [op |-> "eaten", id |-> cat.id, dir |-> d, ret |-> r.ret,
                      eof |-> r.eof, err |-> r.err, fs |-> r.fs, offset |-> r.offset,
                      tar |-> r.tar, path |-> r.path, link |-> r.link,
                      is_sym_link |-> r.is_sym_link, ub |-> r.ub]
    /\ UNCHANGED <<style, entries, last, aborted, served, sweep, tree, config>>

\* What may have happened to a record of a listing read back from storage: the
\* listing ends after the separator of field d.field (cut), or the text of
\* field d.field has been replaced by d.text.
Damages ==
    { [cut |-> TRUE, field |-> 3, text |-> <<>>],
      [cut |-> TRUE, field |-> 9, text |-> <<>>],
      [cut |-> FALSE, field |-> 2, text |-> <<"u", "/", "g">>],
      [cut |-> FALSE, field |-> 3, text |-> <<"a", "b", "c">>],
      [cut |-> FALSE, field |-> 6, text |-> <<"x", ".", "y">>],
      [cut |-> FALSE, field |-> 6, text |-> <<"7">>],
      [cut |-> FALSE, field |-> 11, text |-> <<"z", "z">>] }

\* The listing v with the damage d done to it.
Damaged(v, d) ==
    LET seps == {j \in 1..Len(v) : v[j] = separator}
        sepAt(k) == IF k = 0 THEN 0
                    ELSE CHOOSE j \in seps : Cardinality({m \in seps : m <= j}) = k
    IN  IF d.cut THEN SubSeq(v, 1, sepAt(d.field))
        ELSE SubSeq(v, 1, sepAt(d.field - 1)) \o d.text \o SubSeq(v, sepAt(d.field), Len(v))

\* eatEntry on a damaged copy of the listing just written (a record of all
\* its thirteen fields), with outputs that the caller has zeroed.
EatDamaged ==
    /\ Running /\ cat.op = "cooked"
    /\ Cardinality({j \in 1..Len(cat.listing) : cat.listing[j] = separator}) = 13
    /\ \E d \in Damages :
          \E r \in {eatEntry(Damaged(cat.listing, d), 1, Root, ZeroStat)} :
              cat' = [op |-> "eatenDamaged", id |-> cat.id, damage |-> d, ret |-> r.ret,
                      eof |-> r.eof, err |-> r.err, fs |-> r.fs, offset |-> r.offset,
                      tar |-> r.tar, path |-> r.path, link |-> r.link,
                      is_sym_link |-> r.is_sym_link, ub |-> r.ub]
    /\ UNCHANGED <<style, entries, last, aborted, served, sweep, tree, config>>

\* The caller has taken what was parsed.
CloseCatalog ==
    /\ Running /\ cat.op \in {"eaten", "eatenDamaged"}
    /\ cat' = NoCall
    /\ UNCHANGED <<style, entries, last, aborted, served, sweep, tree, config>>

NextCatalog ==
    \/ \E i \in Ids :
          \/ ConstructCataloged(i)
          \/ CalculateTarpathCataloged(i)
          \/ RewriteIntoHardLink(i)
          \/ RegisterTarFile(i)
          \/ CalculateHash(i)
          \/ CookEntry(i)
    \/ EatEntry
    \/ EatDamaged
    \/ CloseCatalog

SpecCatalog == Init /\ [][NextCatalog]_vars

\* C10: what eatEntry parses from the record cookEntry wrote for an entry is
\* the entry field for field: mode, uid, gid, size (major and minor for a
\* device), the three timestamps, the path (tarpath under dir_to_prepend), the
\* link text and kind, the tar name under dir_to_prepend, and the offset.
C10_CatalogRoundTrip ==
    cat.op = "eaten" =>
        LET e == entries[cat.id]
        IN  /\ cat.ret = TRUE /\ ~cat.err
            /\ cat.fs.type = e.fs.type /\ cat.fs.perm = e.fs.perm
            /\ cat.fs.uid = e.fs.uid /\ cat.fs.gid = e.fs.gid
            /\ IF e.fs.type \in {"CHR", "BLK"}
               THEN cat.fs.major = e.fs.major /\ cat.fs.minor = e.fs.minor
               ELSE cat.fs.size = e.fs.size
            /\ cat.fs.mtim = e.fs.mtim /\ cat.fs.atim = e.fs.atim /\ cat.fs.ctim = e.fs.ctim
            /\ cat.path # NULL
            /\ str(cat.path) = str(cat.dir) \o <<"/">> \o str(e.tarpath)
            /\ cat.link = (IF e.link = NULL THEN <<>> ELSE str(e.link))
            /\ cat.is_sym_link = (e.link # NULL /\ e.fs.type = "LNK")
            /\ cat.tar = str(cat.dir) \o <<"/">> \o e.tar_file
            /\ cat.offset = e.tar_offset + e.header_size

\* C11: when eatEntry returns false none of fs, offset, tar, path, link and
\* is_sym_link has been modified, and every record with a missing or malformed
\* field (a listing that ends early, a non-numeric uid/gid, size, timestamp or
\* offset) is rejected.
C11_RejectedRecordLeavesOutputs ==
    cat.op \in {"eaten", "eatenDamaged"} =>
        /\ (cat.op = "eatenDamaged" => ~cat.ret)
        /\ ~cat.ret =>
               /\ cat.fs = ZeroStat /\ cat.offset = 0 /\ cat.tar = <<>>
               /\ cat.path = NULL /\ cat.link = <<>> /\ cat.is_sym_link = FALSE

----------------------------------------------------------------------------
(* Failures of the source file *)

\* The last copy call went on to the content of an on-disk entry (the
\* condition of line 230 after the header part), so it called open.
ServedOpensSource ==
    /\ served.op = "copy"
    /\ ~entries[served.id].virtual_file
    /\ LET e == entries[served.id]
           hlen == IF served.from < e.header_size
                   THEN Min(e.header_size - served.from, served.size) ELSE 0
       IN  /\ served.size - hlen > 0 /\ hlen < e.blocked_size
           /\ served.from + hlen >= e.header_size /\ served.from + hlen < e.blocked_size

\* C12: when the source file cannot be opened or pread fails, copy reports a
\* failure and returns 0, also when the call has already copied header bytes,
\* and writes neither content nor zero fill.
C12_UnreadableSourceReturnsZero ==
    (ServedOpensSource /\ (~served.io.open_ok \/ ~served.io.pread_ok)) =>
        /\ served.failure /\ served.ret = 0
        /\ \A j \in 1..Len(served.buf) : served.buf[j].k = "hdr"

\* A call that started inside the header, copied the rest of it and then
\* could not open the source file.
C12_Witness ==
    /\ ServedOpensSource /\ ~served.io.open_ok
    /\ served.from < entries[served.id].header_size
    /\ Len(served.buf) = 1 /\ served.buf[1].n > 0
    /\ served.ret = 0 /\ served.failure

\* C13: every descriptor copy opens is closed before copy returns, on every
\* path: no copy call leaves a descriptor open.
C13_NoDescriptorLeftOpen ==
    served.op = "copy" => served.fd_left = 0

----------------------------------------------------------------------------
(* Layout after a change of tarpath or link *)

\* C14: in every reachable state the header_size of an entry made from a stat
\* record is the header size computed from its current tarpath, link target
\* and hard-link flag, and the header copy builds for it (extension blocks and
\* core block) fits the header_size bytes of the scratch buffer.
C14_HeaderSizeIsCurrent ==
    \A i \in Ids :
        (Live(i) /\ entries[i].ctor = "stat") =>
            LET e == entries[i]
            IN  /\ e.header_size =
                       (IF e.tar_header_style = "None" THEN 0
                        ELSE calculateSize(e.fs, e.tarpath, e.link, e.is_hard_linked))
                /\ e.header_size > 0 =>
                       (numLongLinkBlocks(e.link) + numLongPathBlocks(e.tarpath) + 1)
                           * T_BLOCKSIZE <= e.header_size

\* C15: whenever hash() of an entry is not empty it is the digest of the
\* entry's current tarpath, size and mtime: a change of the tarpath does not
\* leave the digest of the old tarpath behind.
C15_FingerprintFollowsTarpath ==
    \A i \in Ids :
        (Live(i) /\ entries[i].sha256_hash # NULL) =>
            entries[i].sha256_hash = calculateSHA256Hash(entries[i])

----------------------------------------------------------------------------
(* The scenarios of the layout *)

\* A regular file of 745 bytes with a short path that is not hard-linked.
ShortFile745(e) ==
    /\ e.ctor = "stat" /\ e.fs.type = "REG" /\ e.fs.size = 745
    /\ ~e.is_hard_linked /\ c_str_len(e.path) <= MaxNameLen

\* C16 as stated: a regular, not hard-linked file of 745 bytes with a short
\* path has header_size 512 and blocked_size 1024, and copy(buf, 1024, 0)
\* returns the whole entry, the header in [0,512) and content plus padding in
\* [512,1024).
C16_ShortFileIsTwoBlocks ==
    \A i \in Ids :
        (Live(i) /\ ShortFile745(entries[i])) =>
            /\ entries[i].header_size = 512 /\ entries[i].blocked_size = 1024
            /\ (ServedReadable /\ served.id = i /\ served.size = 1024 /\ served.from = 0) =>
                   /\ served.ret = entries[i].blocked_size
                   /\ served.buf = <<Seg("hdr", 0, 512), Seg("file", 0, 745),
                                     Seg("zero", 0, 1024 - 512 - 745)>>

\* C16 amended: such a file, constructed with a header style, has header_size
\* 512 and blocked_size 1536 (the header block and two content blocks), and
\* copy(buf, 1536, 0) returns the whole entry: the header in [0,512), the 745
\* content bytes in [512,1257) and 279 zero bytes in [1257,1536).
C16_ShortFileIsThreeBlocks ==
    \A i \in Ids :
        (Live(i) /\ ShortFile745(entries[i]) /\ entries[i].tar_header_style # "None") =>
            /\ entries[i].header_size = 512 /\ entries[i].blocked_size = 1536
            /\ (ServedReadable /\ served.id = i /\ served.size = 1536 /\ served.from = 0) =>
                   /\ served.ret = 1536
                   /\ served.buf = <<Seg("hdr", 0, 512), Seg("file", 0, 745),
                                     Seg("zero", 0, 279)>>

\* The whole of such an entry has been served by one call.
C16_Witness ==
    /\ ServedReadable /\ served.size = 1536 /\ served.from = 0
    /\ ShortFile745(entries[served.id]) /\ entries[served.id].tar_header_style # "None"
    /\ served.ret = 1536

\* C17: the header copy builds for an entry is the long-link extension blocks
\* (if any), then the long-path extension blocks (if any), then the core
\* block, end to end from offset 0 up to header_size, so that header_size is
\* (long-link blocks + long-path blocks + 1) * 512; with a long path and no
\* long link header_size is 512 plus 512 times the long-path block count.
C17_HeaderIsExtensionsThenCore ==
    \A i \in Ids :
        (Live(i) /\ entries[i].ctor = "stat" /\ entries[i].header_size > 0) =>
            LET e == entries[i]
                h == copyHeader(e)
            IN  /\ h[1].at = 0
                /\ \A k \in 1..(Len(h) - 1) :
                       /\ h[k].at + h[k].n = h[k + 1].at
                       /\ h[k].part = (IF k = 1 /\ numLongLinkBlocks(e.link) > 0
                                       THEN "longlink" ELSE "longpath")
                /\ h[Len(h)].part = "core"
                /\ h[Len(h)].at + T_BLOCKSIZE = e.header_size
                /\ (numLongPathBlocks(e.tarpath) > 0 /\ numLongLinkBlocks(e.link) = 0) =>
                       e.header_size = T_BLOCKSIZE + numLongPathBlocks(e.tarpath) * T_BLOCKSIZE

\* C18: when pread returns fewer content bytes than the call asked of the
\* content (the file has shrunk, the read was short), copy signals a read
\* failure; it does not accept the bytes and fill up with zeros.
C18_ShortReadIsFailure ==
    (ServedOpensSource /\ served.io.open_ok /\ served.io.pread_ok) =>
        LET e == entries[served.id]
            hlen == IF served.from < e.header_size
                    THEN Min(e.header_size - served.from, served.size) ELSE 0
            off == served.from + hlen - e.header_size
            asked == IF off < e.fs.size THEN Min(served.size - hlen, e.fs.size - off) ELSE 0
        IN  pread(served.io.file_len, served.size - hlen, off) < asked =>
                /\ served.failure
                /\ \A j \in 1..Len(served.buf) : served.buf[j].k # "zero"

----------------------------------------------------------------------------
(* The link descriptor of a catalog line *)

\* C19: cookEntry writes the link descriptor as empty for an entry without
\* link, as " -> " and the target for a symbolic link, as " link to " and the
\* target for a hard link; eatEntry, when it accepts the record, reports
\* is_sym_link exactly for the " -> " form and hands back the bare target,
\* empty for no link.
C19_LinkDescriptor ==
    (cat.op = "eaten" /\ cat.ret) =>
        LET e == entries[cat.id]
        IN  /\ cookLink(e) = (IF e.link = NULL THEN <<>>
                              ELSE IF isSymbolicLink(e) THEN SymLinkTag \o str(e.link)
                              ELSE HardLinkTag \o str(e.link))
            /\ cat.is_sym_link = (e.link # NULL /\ isSymbolicLink(e))
            /\ cat.link = (IF e.link = NULL THEN <<>> ELSE str(e.link))

----------------------------------------------------------------------------
(* Virtual entries *)

\* C20: for every entry that setContent was called on and that is usable
\* afterwards (the process has not been ended by the assert) st_size equals
\* the length of the content buffer.
C20_VirtualSizeIsContentLength ==
    \A i \in Ids :
        (Running /\ Live(i) /\ entries[i].virtual_file) =>
            entries[i].fs.size = entries[i].content

\* Two usable virtual entries of different sizes, each with a content buffer
\* of its size.
C20_Witness ==
    /\ Running
    /\ \E i, j \in Ids :
          /\ Live(i) /\ entries[i].virtual_file /\ entries[i].content = 600
          /\ Live(j) /\ entries[j].virtual_file /\ entries[j].content = 10
          /\ entries[i].fs.size = 600 /\ entries[j].fs.size = 10

----------------------------------------------------------------------------
(* The directory tree: entries_ and parent_ *)

\* How many TarEntry objects the tree is made of. Objects 1 and 2 are
\* directories, the ones entries are moved between; every object but 1, the
\* root, gets listed in a directory.
NumNodes == 3

\* The positions of the entries_ lists of the tree t that hold entry.
ListedAt(t, entry) ==
    {dk \in {1, 2} \X (1 .. NumNodes) :
        dk[2] <= Len(t.entries_[dk[1]]) /\ t.entries_[dk[1]][dk[2]] = entry}

\* A call that goes on after find has not found the entry: the insert runs.
couldNotMoveGoesOn(t, entry, parent) ==
    [t EXCEPT !.entries_[parent] = Append(@, entry)]

\* What moveEntryToNewParent leaves of the tree when find does not find the
\* entry: error() ends the process before erase and insert run.
couldNotMove(t, entry, parent) == t

\* Every object is constructed with parent_ NULL (0 here) and an empty
\* entries_ list.
InitTree ==
    /\ style = "Simple"
    /\ entries = [i \in Ids |-> NoEntry]
    /\ last = NoCall
    /\ aborted = "none"
    /\ served = NoCall
    /\ sweep = NoCall
    /\ cat = NoCall
    /\ tree = [entries_ |-> [n \in 1 .. NumNodes |-> <<>>],
               parent_  |-> [n \in 1 .. NumNodes |-> 0],
               call     |-> NoCall]
    /\ config = NoCall

\* dir->addEntry(te) for an entry that is on no list yet.
AddEntry(dir, te) ==
    /\ Running
    /\ te # dir
    /\ ListedAt(tree, te) = {}
    /\ tree' = [tree EXCEPT !.entries_[dir] = Append(@, te),
                            !.call = [op |-> "addEntry"]]
    /\ UNCHANGED <<style, entries, last, aborted, served, sweep, cat, config>>

\* entry->registerParent(p), called when the tree is built and again by a
\* caller that has relocated the entry to p.
RegisterParent(entry, p) ==
    /\ Running
    /\ entry # p
    /\ tree.parent_[entry] # p
    /\ \/ tree.parent_[entry] = 0
       \/ /\ tree.call.op \in {"moveEntryToNewParent", "copyEntryToNewParent"}
          /\ ListedAt(tree, entry) \cap ({p} \X (1 .. NumNodes)) # {}
    /\ tree' = [tree EXCEPT !.parent_[entry] = p,
                            !.call = [op |-> "registerParent"]]
    /\ UNCHANGED <<style, entries, last, aborted, served, sweep, cat, config>>

\* dir->moveEntryToNewParent(entry, parent). pos is what find returns, 0 for
\* entries_.end(); a call that does not find the entry ends the process, and
\* the call record then keeps its arguments. A second listing of the entry
\* by the new parent is left out of the inputs.
MoveEntryToNewParent(dir, entry, parent) ==
    LET l   == tree.entries_[dir]
        at  == {k \in 1 .. Len(l) : l[k] = entry}
        pos == IF at = {} THEN 0 ELSE CHOOSE k \in at : \A j \in at : k <= j
        erased == [k \in 1 .. Len(l) - 1 |-> IF k < pos THEN l[k] ELSE l[k + 1]]
        moved  == IF pos = 0 THEN couldNotMove(tree, entry, parent)
                  ELSE [[tree EXCEPT !.entries_[dir] = erased]
                           EXCEPT !.entries_[parent] = Append(@, entry)]
    IN  /\ Running
        /\ entry # parent /\ entry # dir
        /\ \/ dir = parent
           \/ pos = 0
           \/ ListedAt(tree, entry) \cap ({parent} \X (1 .. NumNodes)) = {}
        /\ tree' = [moved EXCEPT
                       !.call = IF pos # 0 THEN [op |-> "moveEntryToNewParent"]
                                ELSE [op |-> "moveEntryToNewParent", dir |-> dir,
                                      entry |-> entry, parent |-> parent]]
        /\ aborted' = IF pos # 0 THEN aborted ELSE "Could not move entry!"
        /\ UNCHANGED <<style, entries, last, served, sweep, cat, config>>

\* copyEntryToNewParent(entry, parent), for an entry the new parent does not
\* list yet.
CopyEntryToNewParent(entry, parent) ==
    /\ Running
    /\ entry # parent
    /\ ListedAt(tree, entry) \cap ({parent} \X (1 .. NumNodes)) = {}
    /\ tree' = [tree EXCEPT !.entries_[parent] = Append(@, entry),
                            !.call = [op |-> "copyEntryToNewParent"]]
    /\ UNCHANGED <<style, entries, last, aborted, served, sweep, cat, config>>

NextTree ==
    \/ \E d \in {1, 2}, e \in 2 .. NumNodes : AddEntry(d, e)
    \/ \E e \in 2 .. NumNodes, p \in {1, 2} : RegisterParent(e, p)
    \/ \E d \in {1, 2}, e \in 2 .. NumNodes, p \in {1, 2} :
          MoveEntryToNewParent(d, e, p)
    \/ \E e \in 2 .. NumNodes, p \in {1, 2} : CopyEntryToNewParent(e, p)

SpecTree == InitTree /\ [][NextTree]_vars

\* C21: moveEntryToNewParent and copyEntryToNewParent leave the tree
\* consistent: an entry that is on the entries_ list of exactly one directory,
\* the one its parent_ names, before the call is so after it.
C21_RelocatedEntryHasOneParent ==
    [][LET InOneDirItsParent(t, e) ==
               /\ Cardinality(ListedAt(t, e)) = 1
               /\ \A dk \in ListedAt(t, e) : t.parent_[e] = dk[1]
       IN  (/\ tree'.call.op \in {"moveEntryToNewParent", "copyEntryToNewParent"}
            /\ tree'.entries_ # tree.entries_) =>
              \A e \in 2 .. NumNodes :
                  InOneDirItsParent(tree, e) => InOneDirItsParent(tree', e)]_vars

\* C23: a moveEntryToNewParent call made on a directory that does not list
\* the entry reports the error and leaves the entries_ list of every directory
\* as it was before the call: nothing is erased and nothing is appended.
C23_MissingEntryMovesNothing ==
    [][(tree'.call.op = "moveEntryToNewParent" /\ aborted' # aborted) =>
          /\ aborted' = "Could not move entry!"
          /\ tree'.entries_ = tree.entries_]_vars

\* The call was made on a directory with entries, none of them the entry, to
\* move the entry to another directory, which has entries too.
C23_Witness ==
    /\ tree.call.op = "moveEntryToNewParent"
    /\ aborted = "Could not move entry!"
    /\ tree.call.dir # tree.call.parent
    /\ tree.entries_[tree.call.dir] # <<>>
    /\ tree.entries_[tree.call.parent] # <<>>

----------------------------------------------------------------------------
(* Calls on different entries *)

----------------------------------------------------------------------------
(* The configuration: rules_, the configuration file, the menus *)

\* How many edits one run of the configuration menus makes.
MaxEdits == 2

\* Rule(): a rule as rules_[name] = Rule() creates it, with no storage.  in
\* tells whether the key is in the map; local whether the local pointer is
\* set, to storages[Path::lookupRoot()].  A path is the sequence of its
\* parts and NULL when empty; a relative path starts with ".beak/...".
Rule0 ==
    [in |-> FALSE, name |-> "", origin_path |-> <<>>,
     type |-> "LocalThenRemoteBackup", history_path |-> <<>>,
     cache_path |-> <<>>, cache_size |-> "0", local |-> FALSE,
     needs_saving |-> FALSE,
     storages |-> [t \in {<<"/">>, <<"/m">>, <<"/n">>} |->
                      [in |-> FALSE, type |-> "FileSystemStorage",
                       target_path |-> <<>>, keep |-> ""]]]

\* Rule::generateDefaultSettingsBasedOnPath: realPath appends the relative
\* path to the origin; cache_path is then overwritten with the relative path.
generateDefaultSettingsBasedOnPath(r) ==
    [r EXCEPT !.history_path = r.origin_path \o <<".beak/history">>,
              !.cache_path = <<".beak/cache">>,
              !.cache_size = "1G",
              !.storages[<<"/">>] = [in |-> TRUE, type |-> "FileSystemStorage",
                                     target_path |-> <<".beak/local">>,
                                     keep |-> "default"],
              !.local = TRUE]

\* load(): rules_ is cleared and the rows of the file are parsed in turn.  A
\* row is a [rule] header (key "section") or key = value.  cur is
\* current_rule and sto current_storage, <<>> for NULL; error() ends the
\* process (aborted); a write through a NULL pointer is undefined, and ub
\* says what the build makes of it: "crash", or "skip" for a write that
\* lands nowhere.
load(rules, file, ub) ==
    LET IsRelative(v) == v # <<>> /\ v[1] \in {".beak/history", ".beak/cache", ".beak/local"}
        Error(st, msg) == [st EXCEPT !.aborted = msg]
        NullDeref(st) == IF ub = "crash" THEN [st EXCEPT !.aborted = "null dereference"]
                         ELSE st
        \* realPath(current_rule->origin_path, value) assigned to a path field
        RealPath(st, value, Set(_, _)) ==
            LET origin == st.rules_[st.cur[1]].origin_path
            IN  IF ~IsRelative(value) THEN Set(st, value)
                ELSE IF origin = <<>>
                THEN Error(st, "the path must be supplied before a relative path is used")
                ELSE Set(st, origin \o value)
        parseRow(st, key, value) ==
            LET c == st.cur[1]
            IN  CASE key \in {"origin", "type", "history", "cache", "cache_size",
                              "local", "local_keep"} /\ st.cur = <<>> ->
                       NullDeref(st)
                  [] key = "origin" /\ st.cur # <<>> ->
                       [st EXCEPT !.rules_[c] = generateDefaultSettingsBasedOnPath(
                                                    [@ EXCEPT !.origin_path = value])]
                  [] key = "type" /\ st.cur # <<>> ->
                       IF value[1] \notin {"LocalThenRemoteBackup", "RemoteBackup", "RemoteMount"}
                       THEN Error(st, "No such rule type")
                       ELSE [st EXCEPT !.rules_[c].type = value[1]]
                  [] key = "history" /\ st.cur # <<>> ->
                       RealPath(st, value,
                                LAMBDA s, v : [s EXCEPT !.rules_[c].history_path = v])
                  [] key = "cache" /\ st.cur # <<>> ->
                       RealPath(st, value,
                                LAMBDA s, v : [s EXCEPT !.rules_[c].cache_path = v])
                  [] key = "cache_size" /\ st.cur # <<>> ->
                       IF value[1] \notin {"1G", "2G"}
                       THEN Error(st, "Could not parse cache size")
                       ELSE [st EXCEPT !.rules_[c].cache_size = value[1]]
                  [] key = "local" /\ st.cur # <<>> ->
                       RealPath(st, value,
                                LAMBDA s, v :
                                    [s EXCEPT !.rules_[c].storages[<<"/">>] =
                                                  [@ EXCEPT !.in = TRUE, !.target_path = v,
                                                            !.type = "FileSystemStorage"],
                                              !.rules_[c].local = TRUE])
                  [] key = "local_keep" /\ st.cur # <<>> ->
                       IF ~st.rules_[c].local
                       THEN Error(st, "Local path must be specified before local keep rule.")
                       ELSE IF value[1] \notin {"default", "weekly"}
                       THEN Error(st, "Invalid keep rule")
                       ELSE [st EXCEPT !.rules_[c].storages[<<"/">>].keep = value[1]]
                  [] key = "remote" ->
                       IF value = <<>> THEN Error(st, "Remote storage cannot be empty.")
                       ELSE IF st.cur = <<>> THEN NullDeref(st)
                       ELSE [st EXCEPT !.rules_[c].storages[value] =
                                           [@ EXCEPT !.in = TRUE, !.target_path = value],
                                       !.sto = <<c, value>>]
                  [] key = "remote_type" ->
                       \* if (!current_storage): the address of load's variable
                       \* is never NULL, so the test never fires
                       IF value[1] \notin {"FileSystemStorage", "RCloneStorage"}
                       THEN Error(st, "No such storage type")
                       ELSE IF st.sto = <<>> THEN NullDeref(st)
                       ELSE [st EXCEPT !.rules_[st.sto[1]].storages[st.sto[2]].type = value[1]]
                  [] key = "remote_keep" ->
                       IF st.sto = <<>>
                       THEN Error(st, "Remote must be specified before keep rule.")
                       ELSE IF value[1] \notin {"default", "weekly"}
                       THEN Error(st, "Invalid keep rule")
                       ELSE [st EXCEPT !.rules_[st.sto[1]].storages[st.sto[2]].keep = value[1]]
                  [] OTHER -> Error(st, "Invalid key")
        Section(st, name) ==
            IF st.rules_[name].in
            THEN Error(st, "Duplicate rule found in configuration file!")
            ELSE [st EXCEPT !.rules_[name] = [Rule0 EXCEPT !.in = TRUE, !.name = name],
                            !.cur = <<name>>]
        RECURSIVE Rows(_, _)
        Rows(st, i) ==
            IF i > Len(file) \/ st.aborted # "none" THEN st
            ELSE Let(IF file[i].key = "section" THEN Section(st, file[i].value[1])
                     ELSE parseRow(st, file[i].key, file[i].value),
                     LAMBDA next : Rows(next, i + 1))
    IN  Rows([rules_ |-> [k \in DOMAIN rules |-> Rule0], cur |-> <<>>, sto |-> <<>>,
              aborted |-> "none"], 1)

\* save() on the configuration c: the rules sorted by name are written to the
\* file row by row, then load() reads the file back into rules_.  Writing a
\* rule without origin path, or a local-then-remote rule without local
\* storage, goes through a NULL pointer: the process is taken to crash.
save(c) ==
    LET order == <<"", "a", "b", "c">>
        Row(k, v) == [key |-> k, value |-> v]
        \* relativePathIfPossible(path, curr)
        Rel(path, curr) ==
            IF path # <<>> /\ Len(path) < Len(curr) /\ SubSeq(curr, 1, Len(path)) = path
            THEN SubSeq(curr, Len(path) + 1, Len(curr))
            ELSE curr
        Remote(r, t) ==
            IF r.storages[t].in
            THEN <<Row("remote", r.storages[t].target_path),
                   Row("remote_type", <<r.storages[t].type>>),
                   Row("remote_keep", <<r.storages[t].keep>>)>>
            ELSE <<>>
        RuleRows(r) ==
            <<Row("section", <<r.name>>),
              Row("origin", r.origin_path),
              Row("type", <<r.type>>),
              Row("history", Rel(r.origin_path, r.history_path)),
              Row("cache", Rel(r.origin_path, r.cache_path)),
              Row("cache_size", <<r.cache_size>>)>>
            \o (IF r.type = "LocalThenRemoteBackup"
                THEN <<Row("local", Rel(r.origin_path, r.storages[<<"/">>].target_path)),
                       Row("local_keep", <<r.storages[<<"/">>].keep>>)>>
                ELSE <<>>)
            \o Remote(r, <<"/m">>) \o Remote(r, <<"/n">>)
        \* the j-th (name, key) pair in sorted order
        Part(j) ==
            LET n == order[((j - 1) \div 4) + 1]
                k == order[((j - 1) % 4) + 1]
            IN  IF c.rules_[k].in /\ c.rules_[k].name = n THEN RuleRows(c.rules_[k])
                ELSE <<>>
        RECURSIVE Conf(_)
        Conf(j) == IF j = 0 THEN <<>> ELSE Conf(j - 1) \o Part(j)
        crash == \E k \in DOMAIN c.rules_ :
                    /\ c.rules_[k].in
                    /\ \/ c.rules_[k].origin_path = <<>>
                       \/ c.rules_[k].type = "LocalThenRemoteBackup" /\ ~c.rules_[k].local
    IN  IF crash THEN [config |-> c, aborted |-> "null dereference"]
        ELSE Let(Conf(16),
                 LAMBDA conf :
                     Let(load(c.rules_, conf, "crash"),
                         LAMBDA l : [config |-> [c EXCEPT !.rules_ = l.rules_, !.file = conf],
                                     aborted |-> l.aborted]))

\* The object after construction: rules_ is empty and the configuration file
\* is one of a few files, well-formed and not.
InitConfig ==
    LET Row(k, v) == [key |-> k, value |-> v]
        A == <<Row("section", <<"a">>), Row("origin", <<"/x">>)>>
        B == <<Row("section", <<"b">>), Row("origin", <<"/y">>)>>
        M == <<Row("remote", <<"/m">>), Row("remote_type", <<"RCloneStorage">>),
               Row("remote_keep", <<"weekly">>)>>
    IN  /\ style = "Simple"
        /\ entries = [i \in Ids |-> NoEntry]
        /\ last = NoCall
        /\ aborted = "none"
        /\ served = NoCall
        /\ sweep = NoCall
        /\ cat = NoCall
        /\ tree = NoCall
        /\ \E file \in {<<>>, A, A \o B, A \o M \o B,
                        A \o <<Row("type", <<"RemoteBackup">>)>> \o M,
                        A \o <<Row("remote_type", <<"RCloneStorage">>)>>,
                        A \o <<Row("remote_keep", <<"weekly">>)>>,
                        A \o <<Row("remote", <<"/m">>)>> \o B
                          \o <<Row("remote_type", <<"RCloneStorage">>)>>,
                        A \o <<Row("remote", <<"/m">>)>> \o B
                          \o <<Row("remote_keep", <<"weekly">>)>>,
                        <<Row("origin", <<"/y">>)>> \o A,
                        <<Row("colour", <<"red">>)>> \o A,
                        A \o A} :
              config = [rules_ |-> [k \in {"", "a", "b", "c"} |-> Rule0],
                        file |-> file, loaded |-> FALSE, edits |-> 0,
                        menu |-> NoCall]

\* load() at start-up.
Load ==
    /\ Running /\ ~config.loaded
    /\ \E ub \in {"crash", "skip"} :
          \E l \in {load(config.rules_, config.file, ub)} :
              /\ config' = [config EXCEPT !.rules_ = l.rules_, !.loaded = TRUE,
                                          !.menu = [op |-> "load"]]
              /\ aborted' = l.aborted
    /\ UNCHANGED <<style, entries, last, served, sweep, cat, tree>>

\* editRule up to its first menu: the rule is picked by the name the list
\* shows and looked up with rules_[s], which creates a rule for a name that
\* is no key.  outputRule reads the origin path of the rule; for a rule
\* without one that is a read through NULL, which may crash or go on.
EditRule(s) ==
    /\ Running /\ config.loaded /\ config.menu.op # "editRule"
    /\ \E k \in DOMAIN config.rules_ : config.rules_[k].in /\ config.rules_[k].name = s
    /\ \E r \in {IF config.rules_[s].in THEN config.rules_[s]
                 ELSE [Rule0 EXCEPT !.in = TRUE]} :
          /\ config' = [config EXCEPT !.rules_[s] = r,
                                      !.menu = [op |-> "editRule", key |-> s,
                                                entered |-> r, choice |-> "none",
                                                input |-> <<>>]]
          /\ aborted' \in (IF r.origin_path = <<>> THEN {"null dereference", "none"}
                           ELSE {"none"})
    /\ UNCHANGED <<style, entries, last, served, sweep, cat, tree>>

\* One entry of the editRule menu that edits a field: editName, editPath,
\* editType, editHistoryPath, editCachePath, editCacheSize, editLocalPath,
\* editLocalKeep.  The name entered is one okRuleName accepts; the two local
\* entries are on the menu of a local-then-remote rule only and assert that
\* the rule has its local storage.
EditField(field, input) ==
    /\ Running /\ config.menu.op = "editRule" /\ config.edits < MaxEdits
    /\ LET r == config.rules_[config.menu.key]
           okRuleName == ~config.rules_[input[1]].in /\ input[1] # ""
           edited ==
               CASE field = "name" ->
                      [r EXCEPT !.name = input[1],
                                !.needs_saving = (input[1] # r.name) \/ @]
                 [] field = "path" -> [r EXCEPT !.origin_path = input]
                 [] field = "type" -> [r EXCEPT !.type = input[1]]
                 [] field = "history" -> [r EXCEPT !.history_path = input]
                 [] field = "cache" -> [r EXCEPT !.history_path = input]
                 [] field = "cache_size" -> [r EXCEPT !.cache_size = input[1]]
                 [] field = "local" -> [r EXCEPT !.storages[<<"/">>].target_path = input]
                 [] field = "local_keep" -> [r EXCEPT !.storages[<<"/">>].keep = input[1]]
       IN  /\ field = "name" => okRuleName
           /\ field \in {"local", "local_keep"} => r.type = "LocalThenRemoteBackup"
           /\ IF field \in {"local", "local_keep"} /\ ~r.local
              THEN /\ aborted' = "editLocal assert"
                   /\ config' = [config EXCEPT !.menu.choice = field]
              ELSE /\ aborted' = aborted
                   /\ config' = [config EXCEPT !.rules_[config.menu.key] = edited,
                                               !.edits = @ + 1,
                                               !.menu.choice = field,
                                               !.menu.input = input]
    /\ UNCHANGED <<style, entries, last, served, sweep, cat, tree>>

\* "a", Add storage: editRemoteTarget and editRemoteKeep fill a Storage, which
\* is stored under its target path.
AddStorage(target) ==
    /\ Running /\ config.menu.op = "editRule" /\ config.edits < MaxEdits
    /\ config' = [config EXCEPT
                     !.rules_[config.menu.key].storages[target] =
                         [in |-> TRUE, type |-> "FileSystemStorage",
                          target_path |-> target, keep |-> "weekly"],
                     !.edits = @ + 1,
                     !.menu.choice = "a"]
    /\ UNCHANGED <<style, entries, last, aborted, served, sweep, cat, tree>>

\* "e", Erase storage, answered yes for a remote storage of the rule:
\* deleteStorage erases it, saves, and hands back rules_[rule_name].
DeleteStorage(target) ==
    /\ Running /\ config.menu.op = "editRule" /\ config.edits < MaxEdits
    /\ config.rules_[config.menu.key].storages[target].in
    /\ LET rule_name == config.rules_[config.menu.key].name
       IN  \E sv \in {save([config EXCEPT
                               !.rules_[config.menu.key].storages[target] =
                                   Rule0.storages[target],
                               !.edits = @ + 1])} :
              /\ config' = [sv.config EXCEPT
                               !.rules_[rule_name].in = TRUE,
                               !.menu.key = rule_name,
                               !.menu.choice = "e"]
              /\ aborted' = sv.aborted
    /\ UNCHANGED <<style, entries, last, served, sweep, cat, tree>>

\* The entries that end editRule: "s" Save and "d" Discard changes are on the
\* menu when the rule needs saving, "q" Exit to main menu when it does not.
\* Save calls save(); the two others only leave the loop.
Leave(key) ==
    /\ Running /\ config.menu.op = "editRule"
    /\ key \in (IF config.rules_[config.menu.key].needs_saving THEN {"s", "d"}
                ELSE {"q"})
    /\ \E sv \in {IF key = "s" THEN save(config)
                  ELSE [config |-> config, aborted |-> aborted]} :
          /\ config' = [sv.config EXCEPT !.menu.op = "left", !.menu.choice = key]
          /\ aborted' = sv.aborted
    /\ UNCHANGED <<style, entries, last, served, sweep, cat, tree>>

\* renameRule: the rule is picked by name and looked up with rules_[s],
\* editName gives it a name okRuleName accepts, save() follows.
RenameRule(s, name) ==
    /\ Running /\ config.loaded /\ config.menu.op # "editRule"
    /\ config.edits < MaxEdits
    /\ \E k \in DOMAIN config.rules_ : config.rules_[k].in /\ config.rules_[k].name = s
    /\ ~config.rules_[name].in /\ (s = name => config.rules_[s].in)
    /\ \E sv \in {save([config EXCEPT
                           !.rules_[s] = [@ EXCEPT !.in = TRUE, !.name = name,
                                                   !.needs_saving = (name # config.rules_[s].name) \/ @],
                           !.edits = @ + 1,
                           !.menu = [op |-> "renameRule", key |-> s, name |-> name]])} :
          /\ config' = sv.config
          /\ aborted' = sv.aborted
    /\ UNCHANGED <<style, entries, last, served, sweep, cat, tree>>

\* copyRule: a copy of rules_[s] gets a name okRuleName accepts and is stored
\* under that name, save() follows.
CopyRule(s, name) ==
    /\ Running /\ config.loaded /\ config.menu.op # "editRule"
    /\ config.edits < MaxEdits
    /\ \E k \in DOMAIN config.rules_ : config.rules_[k].in /\ config.rules_[k].name = s
    /\ ~config.rules_[name].in /\ s # name
    /\ \E sv \in {save([config EXCEPT
                           !.rules_[s].in = TRUE,
                           !.rules_[name] = [config.rules_[s] EXCEPT
                                                !.in = TRUE, !.name = name,
                                                !.needs_saving = TRUE],
                           !.edits = @ + 1,
                           !.menu = [op |-> "copyRule", key |-> s, name |-> name]])} :
          /\ config' = sv.config
          /\ aborted' = sv.aborted
    /\ UNCHANGED <<style, entries, last, served, sweep, cat, tree>>

\* createNewRule, with no storage added and the proposed rule kept: the rule
\* is stored under its name, save() follows.
CreateNewRule(name, path, type) ==
    /\ Running /\ config.loaded /\ config.menu.op # "editRule"
    /\ config.edits < MaxEdits
    /\ ~config.rules_[name].in
    /\ \E sv \in {save([config EXCEPT
                           !.rules_[name] = generateDefaultSettingsBasedOnPath(
                                                [Rule0 EXCEPT !.in = TRUE, !.name = name,
                                                              !.needs_saving = TRUE,
                                                              !.origin_path = path,
                                                              !.type = type]),
                           !.edits = @ + 1,
                           !.menu = [op |-> "createNewRule", key |-> name, name |-> name]])} :
          /\ config' = sv.config
          /\ aborted' = sv.aborted
    /\ UNCHANGED <<style, entries, last, served, sweep, cat, tree>>

\* deleteRule, answered yes: the rule is picked by name, rules_.erase(s) and
\* save() follow.
DeleteRule(s) ==
    /\ Running /\ config.loaded /\ config.menu.op # "editRule"
    /\ config.edits < MaxEdits
    /\ \E k \in DOMAIN config.rules_ : config.rules_[k].in /\ config.rules_[k].name = s
    /\ \E sv \in {save([config EXCEPT
                           !.rules_[s] = Rule0,
                           !.edits = @ + 1,
                           !.menu = [op |-> "deleteRule", key |-> s, name |-> s]])} :
          /\ config' = sv.config
          /\ aborted' = sv.aborted
    /\ UNCHANGED <<style, entries, last, served, sweep, cat, tree>>

NextConfig ==
    \/ Load
    \/ \E s \in {"a", "b", "c"} : EditRule(s)
    \/ \E field \in {"name"}, input \in {<<"a">>, <<"b">>, <<"c">>} :
          EditField(field, input)
    \/ \E field \in {"path"}, input \in {<<"/x">>, <<"/y">>} : EditField(field, input)
    \/ \E field \in {"type"}, input \in {<<"LocalThenRemoteBackup">>, <<"RemoteBackup">>} :
          EditField(field, input)
    \/ \E field \in {"history", "cache", "local"}, input \in {<<"/h">>} :
          EditField(field, input)
    \/ \E field \in {"cache_size"}, input \in {<<"2G">>} : EditField(field, input)
    \/ \E field \in {"local_keep"}, input \in {<<"weekly">>} : EditField(field, input)
    \/ \E target \in {<<"/m">>, <<"/n">>} : AddStorage(target) \/ DeleteStorage(target)
    \/ \E key \in {"s", "d", "q"} : Leave(key)
    \/ \E s \in {"a", "b"}, name \in {"b", "c"} : RenameRule(s, name) \/ CopyRule(s, name)
    \/ \E name \in {"b", "c"}, path \in {<<"/y">>}, type \in {"RemoteBackup"} :
          CreateNewRule(name, path, type)
    \/ \E s \in {"a", "b", "c"} : DeleteRule(s)

SpecConfig == InitConfig /\ [][NextConfig]_vars

----------------------------------------------------------------------------
(* Claims about the configuration *)

\* C24: when "Discard changes" has been chosen in the editRule menu, the rule
\* in memory has the name, paths, type, cache size and storages it had when
\* editRule was entered.
C24_DiscardRestoresRule ==
    (config.menu.op = "left" /\ config.menu.choice = "d") =>
        LET r == config.rules_[config.menu.key]
            e == config.menu.entered
        IN  /\ r.name = e.name
            /\ r.origin_path = e.origin_path
            /\ r.history_path = e.history_path
            /\ r.cache_path = e.cache_path
            /\ r.type = e.type
            /\ r.cache_size = e.cache_size
            /\ r.storages = e.storages

\* C25: in the editRule menu of a rule that differs from what the
\* configuration file holds for it (the file as last saved or loaded),
\* needs_saving is true, so the menu offers Save and Discard.
C25_UnsavedChangesNeedSaving ==
    (Running /\ config.menu.op = "editRule") =>
        LET r == config.rules_[config.menu.key]
            f == load(config.rules_, config.file, "skip").rules_[config.menu.key]
        IN  (\/ r.name # f.name
             \/ r.origin_path # f.origin_path
             \/ r.history_path # f.history_path
             \/ r.cache_path # f.cache_path
             \/ r.type # f.type
             \/ r.cache_size # f.cache_size
             \/ r.storages # f.storages) => r.needs_saving

\* C26: when the file loaded has a remote_type or remote_keep row with no
\* remote row between it and the [rule] header of its section, the load ends
\* with the error "Remote must be specified before ..." and rules_ is what
\* the rows before that row made it: no storage of any rule is modified.
C26_RemoteRowNeedsRemoteInItsSection ==
    LET file == config.file
        Orphan(i) ==
            /\ file[i].key \in {"remote_type", "remote_keep"}
            /\ \A j \in 1 .. i - 1 :
                  file[j].key = "remote" =>
                      \E k \in j + 1 .. i - 1 : file[k].key = "section"
    IN  \A i \in 1 .. Len(file) :
            (/\ config.menu.op = "load"
             /\ Orphan(i)
             /\ \A j \in 1 .. i - 1 : ~Orphan(j)) =>
                /\ aborted = (IF file[i].key = "remote_type"
                              THEN "Remote must be specified before type."
                              ELSE "Remote must be specified before keep rule.")
                /\ config.rules_ = load(config.rules_, SubSeq(file, 1, i - 1), "skip").rules_

\* C27: an edit made from the editRule menu changes the field it is named
\* for and no other: after editCachePath cache_path is the directory entered
\* and history_path, origin_path, type, cache_size and the storages are what
\* they were.
C27_EditChangesItsFieldOnly ==
    [][(/\ config.menu.op = "editRule" /\ config'.menu.op = "editRule"
        /\ config'.edits = config.edits + 1
        /\ config'.menu.choice \in {"name", "path", "type", "history", "cache",
                                    "cache_size"}) =>
          LET r == config.rules_[config.menu.key]
              q == config'.rules_[config.menu.key]
              c == config'.menu.choice
          IN  /\ c # "name" => q.name = r.name
              /\ c # "path" => q.origin_path = r.origin_path
              /\ c # "type" => q.type = r.type
              /\ c # "history" => q.history_path = r.history_path
              /\ c # "cache" => q.cache_path = r.cache_path
              /\ c # "cache_size" => q.cache_size = r.cache_size
              /\ q.storages = r.storages
              /\ c = "cache" => q.cache_path = config'.menu.input]_vars

\* C28: after load, and after a createNewRule, renameRule, copyRule,
\* deleteRule, deleteStorage or Save that has completed, every rule of rules_
\* is stored under its name (so names are unique); and the load of a file
\* whose first row is a key row ends with an error and with rules_ empty.
C28_RulesAreKeyedByName ==
    /\ (/\ Running
        /\ \/ config.menu.op \in {"load", "createNewRule", "renameRule", "copyRule",
                                  "deleteRule"}
           \/ config.menu.op \in {"editRule", "left"} /\ config.menu.choice \in {"s", "e"}) =>
           \A k \in DOMAIN config.rules_ :
               config.rules_[k].in => config.rules_[k].name = k
    /\ (/\ config.menu.op = "load"
        /\ config.file # <<>>
        /\ config.file[1].key # "section") =>
           /\ aborted \notin {"none", "null dereference"}
           /\ \A k \in DOMAIN config.rules_ : ~config.rules_[k].in

====
